---------------------------- MODULE Spec2Model ----------------------------
(***************************************************************************)
(* A model of the personal-accountant application: the period codec        *)
(* (app/period_ym.py), the frequency validator, the two CSV importers      *)
(* (app/routers/budget.py, app/routers/transactions_import.py), the        *)
(* budget-line and transaction forms (app/routers/budget.py,               *)
(* app/routers/transactions.py) and overlapping calls of                   *)
(* _get_or_create_budget, all working on the relational store              *)
(* (app/models.py).                                                        *)
(*                                                                         *)
(* Text is modelled as a sequence of one-character strings, so that        *)
(* strip(), split(), lower(), isdigit() and int() are computed as Python   *)
(* computes them.  An Optional[...] value is a sequence of length 0 (None) *)
(* or 1 (the value).                                                       *)
(***************************************************************************)
EXTENDS Integers, Sequences, FiniteSets, TLC

(***************************************************************************)
(* Bounds of the model.                                                    *)
(***************************************************************************)
\* longest text handed to mm_yy_to_ym in the codec specification
MaxLen == 7
\* how far around each pivot year the month keys handed to ym_to_mm_yy go
YearWindow == 1

(***************************************************************************)
(* Text helpers (Python str methods).                                      *)
(***************************************************************************)
None == <<>>

Some(v) == <<v>>

Digits == <<"0", "1", "2", "3", "4", "5", "6", "7", "8", "9">>

DigitSet == {Digits[i] : i \in 1..10}

Whitespace == {" "}

UpperLetters ==
    <<"A", "B", "C", "D", "E", "F", "G", "H", "I", "J", "K", "L", "M",
      "N", "O", "P", "Q", "R", "S", "T", "U", "V", "W", "X", "Y", "Z">>

LowerLetters ==
    <<"a", "b", "c", "d", "e", "f", "g", "h", "i", "j", "k", "l", "m",
      "n", "o", "p", "q", "r", "s", "t", "u", "v", "w", "x", "y", "z">>

\* str.lower() on one character
LowerChar(c) ==
    IF \E i \in 1..26 : UpperLetters[i] = c
    THEN LowerLetters[CHOOSE i \in 1..26 : UpperLetters[i] = c]
    ELSE c

\* a lower() that leaves the text as it is
LowerNoop(s) == s

\* str.lower()
Lower(s) == [i \in 1..Len(s) |-> LowerChar(s[i])]

\* str.strip(): drop the leading and the trailing whitespace
Strip(s) ==
    LET keep == {i \in 1..Len(s) : s[i] \notin Whitespace}
    IN  IF keep = {} THEN <<>>
        ELSE LET lo == CHOOSE i \in keep : \A j \in keep : i <= j
                 hi == CHOOSE i \in keep : \A j \in keep : j <= i
             IN  SubSeq(s, lo, hi)

\* str.split(sep) for a one-character separator: always at least one part
RECURSIVE Split(_, _)
Split(s, sep) ==
    LET hits == {i \in 1..Len(s) : s[i] = sep}
    IN  IF hits = {} THEN <<s>>
        ELSE LET k == CHOOSE i \in hits : \A j \in hits : i <= j
             IN  <<SubSeq(s, 1, k - 1)>> \o Split(SubSeq(s, k + 1, Len(s)), sep)

\* str.isdigit(): non-empty and every character a digit
IsDigit(s) == Len(s) > 0 /\ \A i \in 1..Len(s) : s[i] \in DigitSet

DigitVal(c) == (CHOOSE i \in 1..10 : Digits[i] = c) - 1

\* int(s) for a text of digits
RECURSIVE IntOf(_)
IntOf(s) ==
    IF Len(s) = 0 THEN 0
    ELSE 10 * IntOf(SubSeq(s, 1, Len(s) - 1)) + DigitVal(s[Len(s)])

\* f"{n:02d}" for 0 <= n <= 99
Fmt02(n) == <<Digits[(n \div 10) + 1], Digits[(n % 10) + 1]>>

(***************************************************************************)
(* Results of a call: a value, or the ValueError the call raised.          *)
(***************************************************************************)
Ok(v) == [ok |-> TRUE, val |-> v, err |-> ""]

Raise(msg) == [ok |-> FALSE, val |-> None, err |-> msg]

NoCall == [ok |-> FALSE, val |-> None, err |-> "not called"]

Called(r) == r.err # "not called"

(***************************************************************************)
(* app/period_ym.py                                                        *)
(***************************************************************************)
\* an encoder that counts months: twelve keys a year
ym_from_date_months(d) == d.year * 12 + d.month

\* ym_from_date(d): d is a date [year, month, day]
ym_from_date(d) == d.year * 100 + d.month

\* the decoder's arithmetic: y = ym // 100, m = ym % 100
ym_split(ym) == [y |-> ym \div 100, m |-> ym % 100]

\* a century policy of 1900-1999
yyyy_from_two_digit_1900(two_digit) ==
    IF two_digit < 0 \/ two_digit > 99
    THEN Raise("YY must be 00-99")
    ELSE Ok(1900 + two_digit)

_yyyy_from_two_digit(two_digit) ==
    IF two_digit < 0 \/ two_digit > 99
    THEN Raise("YY must be 00-99")
    ELSE Ok(2000 + two_digit)

\* a parser that also takes a four-digit year, mapped to itself
mm_yy_to_ym_long_year(mm_yy) ==
    IF Len(mm_yy) = 0 THEN Raise("MM/YY string is required")
    ELSE
    LET s == Strip(mm_yy)
        parts == Split(s, "/")
    IN  IF Len(parts) # 2 THEN Raise("Invalid MM/YY format; expected 'MM/YY'")
        ELSE
        LET mm == Strip(parts[1])
            yy == Strip(parts[2])
        IN  IF Len(mm) # 2 \/ Len(yy) \notin {2, 4} \/ ~IsDigit(mm) \/ ~IsDigit(yy)
            THEN Raise("Invalid MM/YY; use two digits for month and year")
            ELSE
            LET m == IntOf(mm)
            IN  IF m < 1 \/ m > 12 THEN Raise("Month must be 01-12")
                ELSE IF Len(yy) = 4 THEN Ok(IntOf(yy) * 100 + m)
                ELSE
                LET y == _yyyy_from_two_digit(IntOf(yy))
                IN  IF y.ok THEN Ok(y.val * 100 + m) ELSE y

mm_yy_to_ym(mm_yy) ==
    IF Len(mm_yy) = 0 THEN Raise("MM/YY string is required")
    ELSE
    LET s == Strip(mm_yy)
        parts == Split(s, "/")
    IN  IF Len(parts) # 2 THEN Raise("Invalid MM/YY format; expected 'MM/YY'")
        ELSE
        LET mm == Strip(parts[1])
            yy == Strip(parts[2])
        IN  IF Len(mm) # 2 \/ Len(yy) # 2 \/ ~IsDigit(mm) \/ ~IsDigit(yy)
            THEN Raise("Invalid MM/YY; use two digits for month and year")
            ELSE
            LET m == IntOf(mm)
            IN  IF m < 1 \/ m > 12 THEN Raise("Month must be 01-12")
                ELSE
                LET y == _yyyy_from_two_digit(IntOf(yy))
                IN  IF y.ok THEN Ok(y.val * 100 + m) ELSE y

\* a formatter whose floor is the first six-digit key
ym_to_mm_yy_six_digits(ym) ==
    IF ym < 100001 THEN Raise("ym must be an integer like 202501")
    ELSE
    LET y == ym \div 100
        m == ym % 100
    IN  IF m < 1 \/ m > 12 THEN Raise("Invalid ym month component")
        ELSE Ok(Fmt02(m) \o <<"/">> \o Fmt02(y % 100))

\* a formatter that writes the year before the month
ym_to_yy_mm(ym) ==
    IF ym < 10000 THEN Raise("ym must be an integer like 202501")
    ELSE
    LET y == ym \div 100
        m == ym % 100
    IN  IF m < 1 \/ m > 12 THEN Raise("Invalid ym month component")
        ELSE Ok(Fmt02(y % 100) \o <<"/">> \o Fmt02(m))

ym_to_mm_yy(ym) ==
    IF ym < 10000 THEN Raise("ym must be an integer like 202501")
    ELSE
    LET y == ym_split(ym).y
        m == ym_split(ym).m
    IN  IF m < 1 \/ m > 12 THEN Raise("Invalid ym month component")
        ELSE Ok(Fmt02(m) \o <<"/">> \o Fmt02(y % 100))

parse_mm_yy(mm_yy) == mm_yy_to_ym(mm_yy)

format_ym(ym) == ym_to_mm_yy(ym)

\* the text constants of the frequency column
MONTHLY == <<"m", "o", "n", "t", "h", "l", "y">>

ONE_TIME == <<"o", "n", "e", "_", "t", "i", "m", "e">>

\* a validator that lets a monthly line keep a one_time month
validate_monthly_keeps_one_time(frequency, start_ym, end_ym, one_time_ym) ==
    LET freq == Lower(frequency)
    IN  IF freq = MONTHLY
        THEN IF start_ym = None
             THEN Raise("start_ym required for monthly")
             ELSE IF end_ym # None /\ end_ym[1] < start_ym[1]
             THEN Raise("end_ym must be >= start_ym")
             ELSE Ok(None)
        ELSE IF freq = ONE_TIME
        THEN IF one_time_ym = None
             THEN Raise("one_time_ym required for one_time")
             ELSE IF start_ym # None \/ end_ym # None
             THEN Raise("start_ym/end_ym must be empty for one_time")
             ELSE Ok(None)
        ELSE Raise("frequency must be 'monthly' or 'one_time'")

\* a validator that looks at one_time before it compares end with start
validate_one_time_checked_first(frequency, start_ym, end_ym, one_time_ym) ==
    LET freq == Lower(frequency)
    IN  IF freq = MONTHLY
        THEN IF start_ym = None
             THEN Raise("start_ym required for monthly")
             ELSE IF one_time_ym # None
             THEN Raise("one_time_ym must be empty for monthly")
             ELSE IF end_ym # None /\ end_ym[1] < start_ym[1]
             THEN Raise("end_ym must be >= start_ym")
             ELSE Ok(None)
        ELSE IF freq = ONE_TIME
        THEN IF start_ym # None \/ end_ym # None
             THEN Raise("start_ym/end_ym must be empty for one_time")
             ELSE IF one_time_ym = None
             THEN Raise("one_time_ym required for one_time")
             ELSE Ok(None)
        ELSE Raise("frequency must be 'monthly' or 'one_time'")

\* start_ym, end_ym, one_time_ym are Optional[int]
validate_line_frequency_fields(frequency, start_ym, end_ym, one_time_ym) ==
    LET freq == Lower(frequency)
    IN  IF freq = MONTHLY
        THEN IF start_ym = None
             THEN Raise("start_ym required for monthly")
             ELSE IF end_ym # None /\ end_ym[1] < start_ym[1]
             THEN Raise("end_ym must be >= start_ym")
             ELSE IF one_time_ym # None
             THEN Raise("one_time_ym must be empty for monthly")
             ELSE Ok(None)
        ELSE IF freq = ONE_TIME
        THEN IF one_time_ym = None
             THEN Raise("one_time_ym required for one_time")
             ELSE IF start_ym # None \/ end_ym # None
             THEN Raise("start_ym/end_ym must be empty for one_time")
             ELSE Ok(None)
        ELSE Raise("frequency must be 'monthly' or 'one_time'")

(***************************************************************************)
(* app/models.py: the enums and the keys of the tables.                    *)
(***************************************************************************)
INCOME == <<"i", "n", "c", "o", "m", "e">>

EXPENSE == <<"e", "x", "p", "e", "n", "s", "e">>

EUR == <<"E", "U", "R">>

\* LineType(value): the member with that value, or ValueError
LineType(value) ==
    IF value \in {INCOME, EXPENSE} THEN Ok(value) ELSE Raise("is not a valid LineType")

\* Frequency(value): the member with that value, or ValueError
Frequency(value) ==
    IF value \in {MONTHLY, ONE_TIME} THEN Ok(value) ELSE Raise("is not a valid Frequency")

\* the primary key the database gives the next row of a table
NextId(table) ==
    IF table = {} THEN 1
    ELSE (CHOOSE i \in {r.id : r \in table} : \A r \in table : r.id <= i) + 1

\* Optional[str] of a text: None when the text is empty
OrNone(s) == IF s = <<>> THEN None ELSE Some(s)

\* float(text), for the amounts of the model: digits, whitespace around them
float(s) ==
    LET x == Strip(s)
    IN  IF IsDigit(x) THEN Ok(IntOf(x)) ELSE Raise("could not convert string to float")

IsLeap(y) == (y % 4 = 0 /\ y % 100 # 0) \/ y % 400 = 0

DaysInMonth(y, m) ==
    IF m = 2 THEN (IF IsLeap(y) THEN 29 ELSE 28)
    ELSE IF m \in {4, 6, 9, 11} THEN 30 ELSE 31

\* date.fromisoformat(text): 'YYYY-MM-DD' of a calendar day
fromisoformat(s) ==
    IF /\ Len(s) = 10 /\ s[5] = "-" /\ s[8] = "-"
       /\ IsDigit(SubSeq(s, 1, 4)) /\ IsDigit(SubSeq(s, 6, 7)) /\ IsDigit(SubSeq(s, 9, 10))
    THEN LET y == IntOf(SubSeq(s, 1, 4))
             m == IntOf(SubSeq(s, 6, 7))
             d == IntOf(SubSeq(s, 9, 10))
         IN  IF y >= 1 /\ m \in 1..12 /\ d >= 1 /\ d <= DaysInMonth(y, m)
             THEN Ok([year |-> y, month |-> m, day |-> d])
             ELSE Raise("date value out of range")
    ELSE Raise("Invalid isoformat string")

(***************************************************************************)
(* app/services/transactions.py                                            *)
(***************************************************************************)
\* create_transaction: the table after the row has been added and committed
create_transaction(txns, budget_id, type, category, subcategory, amount, currency, txn_date, notes) ==
    txns \cup {[id |-> NextId(txns),
                budget_id |-> budget_id,
                type |-> type,
                category |-> category,
                subcategory |-> IF subcategory = Some(<<>>) THEN None ELSE subcategory,
                amount |-> amount,
                currency |-> IF currency = <<>> THEN EUR ELSE currency,
                txn_date |-> txn_date,
                ym |-> ym_from_date(txn_date),
                notes |-> notes]}

(***************************************************************************)
(* app/routers/budget.py: the budget-line import.                          *)
(***************************************************************************)
\* a helper that adds a budget at every call
get_or_create_budget_always(budgets, user_id) ==
    LET bud == [id |-> NextId(budgets), user_id |-> user_id,
                name |-> "Main", is_active |-> TRUE]
    IN  [budgets |-> budgets \cup {bud}, bud |-> bud]

\* the active budget of the user, created when there is none
_get_or_create_budget(budgets, user_id) ==
    LET found == {b \in budgets : b.user_id = user_id /\ b.is_active}
    IN  IF found # {}
        THEN [budgets |-> budgets,
              bud |-> CHOOSE b \in found : \A c \in found : b.id <= c.id]
        ELSE LET bud == [id |-> NextId(budgets), user_id |-> user_id,
                         name |-> "Main", is_active |-> TRUE]
             IN  [budgets |-> budgets \cup {bud}, bud |-> bud]

required_cols ==
    <<"type", "category", "subcategory", "amount", "currency", "frequency",
      "start_mm_yy", "end_mm_yy", "one_time_mm_yy">>

InSeq(x, s) == \E i \in 1..Len(s) : s[i] = x

\* a header check that wants the header to be the column list itself
lines_header_exact(fieldnames) == fieldnames = Some(required_cols)

\* the header check of lines_import_submit; fieldnames is None for an empty file
lines_header_ok(fieldnames) ==
    ~(fieldnames = None \/ \E i \in 1..Len(required_cols) : ~InSeq(required_cols[i], fieldnames[1]))

\* csv.DictReader: the cell of column c of a row.  The last column of that name
\* counts, and a row too short for it gives the restval None, which every use
\* in lines_import_submit reads as the empty text.
DictGet(fieldnames, row, c) ==
    LET j == CHOOSE k \in 1..Len(fieldnames) :
                 /\ fieldnames[k] = c
                 /\ \A l \in 1..Len(fieldnames) : fieldnames[l] = c => l <= k
    IN  IF j <= Len(row) THEN row[j] ELSE <<>>

\* a row loop that parses every month cell that has text, whatever the frequency
lines_import_row_parses_all(fieldnames, row) ==
    LET t == Lower(Strip(DictGet(fieldnames, row, "type")))
        cat == Strip(DictGet(fieldnames, row, "category"))
        sub == OrNone(Strip(DictGet(fieldnames, row, "subcategory")))
        amount == DictGet(fieldnames, row, "amount")
        amt == IF amount = <<>> THEN Ok(0) ELSE float(amount)
        currency == DictGet(fieldnames, row, "currency")
        cur == Strip(IF currency = <<>> THEN EUR ELSE currency)
        freq == Lower(Strip(DictGet(fieldnames, row, "frequency")))
        start_mm_yy == Strip(DictGet(fieldnames, row, "start_mm_yy"))
        end_mm_yy == Strip(DictGet(fieldnames, row, "end_mm_yy"))
        one_time_mm_yy == Strip(DictGet(fieldnames, row, "one_time_mm_yy"))
        parsed(r) == IF r.ok THEN Ok(Some(r.val)) ELSE r
        start == IF start_mm_yy # <<>>
                 THEN parsed(parse_mm_yy(start_mm_yy)) ELSE Ok(None)
        end == IF end_mm_yy # <<>>
               THEN parsed(parse_mm_yy(end_mm_yy)) ELSE Ok(None)
        one_time == IF one_time_mm_yy # <<>>
                    THEN parsed(parse_mm_yy(one_time_mm_yy)) ELSE Ok(None)
    IN  IF ~amt.ok THEN amt
        ELSE IF t = <<>> \/ cat = <<>> \/ amount = <<>> \/ freq = <<>>
        THEN Raise("Missing one of: type, category, amount, frequency.")
        ELSE IF ~start.ok THEN start
        ELSE IF ~end.ok THEN end
        ELSE IF ~one_time.ok THEN one_time
        ELSE
        LET checked == validate_line_frequency_fields(
                           freq, start.val, end.val, one_time.val)
        IN  IF ~checked.ok THEN checked
            ELSE IF ~LineType(t).ok THEN LineType(t)
            ELSE IF ~Frequency(freq).ok THEN Frequency(freq)
            ELSE Ok([id |-> 0, budget_id |-> 0,
                     type |-> t, category |-> cat, subcategory |-> sub,
                     amount |-> amt.val,
                     currency |-> IF cur = <<>> THEN EUR ELSE cur,
                     frequency |-> freq,
                     start_ym |-> start.val, end_ym |-> end.val,
                     one_time_ym |-> one_time.val,
                     is_active |-> TRUE])

\* the body of the try block of the row loop: the BudgetLine to add (its id
\* and budget still open), or the exception of the row
lines_import_row(fieldnames, row) ==
    LET t == Lower(Strip(DictGet(fieldnames, row, "type")))
        cat == Strip(DictGet(fieldnames, row, "category"))
        sub == OrNone(Strip(DictGet(fieldnames, row, "subcategory")))
        amount == DictGet(fieldnames, row, "amount")
        amt == IF amount = <<>> THEN Ok(0) ELSE float(amount)
        currency == DictGet(fieldnames, row, "currency")
        cur == Strip(IF currency = <<>> THEN EUR ELSE currency)
        freq == Lower(Strip(DictGet(fieldnames, row, "frequency")))
        start_mm_yy == Strip(DictGet(fieldnames, row, "start_mm_yy"))
        end_mm_yy == Strip(DictGet(fieldnames, row, "end_mm_yy"))
        one_time_mm_yy == Strip(DictGet(fieldnames, row, "one_time_mm_yy"))
        parsed(r) == IF r.ok THEN Ok(Some(r.val)) ELSE r
        start == IF freq = MONTHLY /\ start_mm_yy # <<>>
                 THEN parsed(parse_mm_yy(start_mm_yy)) ELSE Ok(None)
        end == IF freq = MONTHLY /\ end_mm_yy # <<>>
               THEN parsed(parse_mm_yy(end_mm_yy)) ELSE Ok(None)
        one_time == IF freq = ONE_TIME /\ one_time_mm_yy # <<>>
                    THEN parsed(parse_mm_yy(one_time_mm_yy)) ELSE Ok(None)
    IN  IF ~amt.ok THEN amt
        ELSE IF t = <<>> \/ cat = <<>> \/ amount = <<>> \/ freq = <<>>
        THEN Raise("Missing one of: type, category, amount, frequency.")
        ELSE IF ~start.ok THEN start
        ELSE IF ~end.ok THEN end
        ELSE IF ~one_time.ok THEN one_time
        ELSE
        LET checked == validate_line_frequency_fields(
                           freq, start.val, end.val, one_time.val)
        IN  IF ~checked.ok THEN checked
            ELSE IF ~LineType(t).ok THEN LineType(t)
            ELSE IF ~Frequency(freq).ok THEN Frequency(freq)
            ELSE Ok([id |-> 0, budget_id |-> 0,
                     type |-> t, category |-> cat, subcategory |-> sub,
                     amount |-> amt.val,
                     currency |-> IF cur = <<>> THEN EUR ELSE cur,
                     frequency |-> freq,
                     start_ym |-> start.val, end_ym |-> end.val,
                     one_time_ym |-> one_time.val,
                     is_active |-> TRUE])

(***************************************************************************)
(* app/routers/transactions_import.py: the transaction import.             *)
(***************************************************************************)
import_get_or_create_budget(budgets, user_id) ==
    LET found == {b \in budgets : b.user_id = user_id /\ b.is_active}
    IN  IF found # {}
        THEN [budgets |-> budgets,
              bud |-> CHOOSE b \in found : \A c \in found : b.id <= c.id]
        ELSE LET bud == [id |-> NextId(budgets), user_id |-> user_id,
                         name |-> "Main", is_active |-> TRUE]
             IN  [budgets |-> budgets \cup {bud}, bud |-> bud]

EXPECTED_HEADER ==
    <<"date", "type", "category", "subcategory", "amount", "currency", "notes">>

\* a header check that only wants every expected column to be there
import_header_by_name(header) ==
    \A i \in 1..Len(EXPECTED_HEADER) : InSeq(EXPECTED_HEADER[i], header)

\* the header check of import_submit
import_header_ok(header) == header = EXPECTED_HEADER

\* a padding that leaves the cells as they were read
import_padded_untrimmed(row) ==
    LET padded == row \o [i \in 1..Len(EXPECTED_HEADER) |-> <<>>]
    IN  [i \in 1..Len(EXPECTED_HEADER) |-> padded[i]]

\* (row + [""] * len(EXPECTED_HEADER))[: len(EXPECTED_HEADER)], each cell stripped
import_padded(row) ==
    LET padded == row \o [i \in 1..Len(EXPECTED_HEADER) |-> <<>>]
    IN  [i \in 1..Len(EXPECTED_HEADER) |-> Strip(padded[i])]

\* the validation of one row of import_submit: the arguments handed to
\* create_transaction, or the exception of the row
import_row(row) ==
    LET c == import_padded(row)
        s_date == c[1]
        s_type == c[2]
        s_cat == c[3]
        s_sub == c[4]
        s_amount == c[5]
        s_currency == c[6]
        s_notes == c[7]
        txn_dt == fromisoformat(s_date)
        s_type_l == Lower(s_type)
        amount == float(s_amount)
    IN  IF s_date = <<>> THEN Raise("date is required (YYYY-MM-DD)")
        ELSE IF ~txn_dt.ok THEN Raise("date must be in YYYY-MM-DD format")
        ELSE IF s_type_l \notin {INCOME, EXPENSE}
        THEN Raise("type must be 'income' or 'expense'")
        ELSE IF s_cat = <<>> THEN Raise("category is required")
        ELSE IF s_amount = <<>> THEN Raise("amount is required")
        ELSE IF ~amount.ok THEN Raise("amount must be a number")
        ELSE Ok([type |-> LineType(s_type_l).val,
                 category |-> s_cat,
                 subcategory |-> OrNone(s_sub),
                 amount |-> amount.val,
                 currency |-> IF s_currency = <<>> THEN EUR ELSE s_currency,
                 txn_date |-> txn_dt.val,
                 notes |-> OrNone(s_notes)])

(***************************************************************************)
(* app/routers/budget.py: the budget-line forms.                           *)
(***************************************************************************)
\* _get_line_for_user: the line of that id if its budget belongs to the user
_get_line_for_user(budgets, lines, user_id, line_id) ==
    LET found == {l \in lines :
                     /\ l.id = line_id
                     /\ \E b \in budgets : b.id = l.budget_id /\ b.user_id = user_id}
    IN  IF found = {} THEN None ELSE Some(CHOOSE l \in found : TRUE)

\* the try block of create_line and of edit_line_submit: the three month keys,
\* or the exception.  The optional form fields are Optional texts.
line_form_months(form) ==
    LET given(o) == o # None /\ o[1] # <<>>
        parsed(r) == IF r.ok THEN Ok(Some(r.val)) ELSE r
        start == IF form.frequency = MONTHLY /\ given(form.start_mm_yy)
                 THEN parsed(parse_mm_yy(form.start_mm_yy[1])) ELSE Ok(None)
        end == IF form.frequency = MONTHLY /\ given(form.end_mm_yy)
               THEN parsed(parse_mm_yy(form.end_mm_yy[1])) ELSE Ok(None)
        one_time == IF form.frequency = ONE_TIME /\ given(form.one_time_mm_yy)
                    THEN parsed(parse_mm_yy(form.one_time_mm_yy[1])) ELSE Ok(None)
    IN  IF ~start.ok THEN start
        ELSE IF ~end.ok THEN end
        ELSE IF ~one_time.ok THEN one_time
        ELSE
        LET checked == validate_line_frequency_fields(
                           form.frequency, start.val, end.val, one_time.val)
        IN  IF ~checked.ok THEN checked
            ELSE Ok([start_ym |-> start.val, end_ym |-> end.val,
                     one_time_ym |-> one_time.val])

\* the field values computed after the try block, in the order the code
\* computes them, or the exception of LineType(type) / Frequency(frequency)
line_form_fields(form, months) ==
    IF ~LineType(form.type).ok THEN LineType(form.type)
    ELSE IF ~Frequency(form.frequency).ok THEN Frequency(form.frequency)
    ELSE Ok([type |-> form.type,
             category |-> Strip(form.category),
             subcategory |-> IF form.subcategory # None /\ form.subcategory[1] # <<>>
                             THEN Some(Strip(form.subcategory[1])) ELSE None,
             amount |-> form.amount,
             currency |-> IF Strip(form.currency) = <<>> THEN EUR ELSE Strip(form.currency),
             frequency |-> form.frequency,
             start_ym |-> months.start_ym,
             end_ym |-> months.end_ym,
             one_time_ym |-> months.one_time_ym])

\* an edit that leaves the month keys the form does not send as they were
edit_line_keeps_months(line, f) ==
    [line EXCEPT !.type = f.type, !.category = f.category,
                 !.subcategory = f.subcategory, !.amount = f.amount,
                 !.currency = f.currency, !.frequency = f.frequency,
                 !.start_ym = IF f.start_ym = None THEN @ ELSE f.start_ym,
                 !.end_ym = IF f.end_ym = None THEN @ ELSE f.end_ym,
                 !.one_time_ym = IF f.one_time_ym = None THEN @ ELSE f.one_time_ym]

\* the assignments of edit_line_submit to the line it has loaded
edit_line_assign(line, f) ==
    [line EXCEPT !.type = f.type, !.category = f.category,
                 !.subcategory = f.subcategory, !.amount = f.amount,
                 !.currency = f.currency, !.frequency = f.frequency,
                 !.start_ym = f.start_ym, !.end_ym = f.end_ym,
                 !.one_time_ym = f.one_time_ym]

(***************************************************************************)
(* app/routers/transactions.py: the transaction forms.                     *)
(***************************************************************************)
tx_get_or_create_budget(budgets, user_id) ==
    LET found == {b \in budgets : b.user_id = user_id /\ b.is_active}
    IN  IF found # {}
        THEN [budgets |-> budgets,
              bud |-> CHOOSE b \in found : \A c \in found : b.id <= c.id]
        ELSE LET bud == [id |-> NextId(budgets), user_id |-> user_id,
                         name |-> "Main", is_active |-> TRUE]
             IN  [budgets |-> budgets \cup {bud}, bud |-> bud]

\* form.get(name) or default: the fields of request.form() are Optional texts
FormGet(form, name, default) ==
    IF form[name] = None \/ form[name][1] = <<>> THEN default ELSE form[name][1]

\* the try block of create_submit: the arguments of create_transaction, or the
\* exception
create_submit_fields(form) ==
    LET ttype == Lower(Strip(FormGet(form, "type", <<>>)))
        category == Strip(FormGet(form, "category", <<>>))
        subcategory == OrNone(Strip(FormGet(form, "subcategory", <<>>)))
        amount == float(FormGet(form, "amount", <<"0">>))
        currency == Strip(FormGet(form, "currency", EUR))
        txn_dt == fromisoformat(Strip(FormGet(form, "txn_date", <<>>)))
    IN  IF ~amount.ok THEN amount
        ELSE IF ~txn_dt.ok THEN txn_dt
        ELSE IF ttype \notin {INCOME, EXPENSE} THEN Raise("type must be income or expense")
        ELSE IF category = <<>> THEN Raise("category is required")
        ELSE Ok([type |-> ttype, category |-> category, subcategory |-> subcategory,
                 amount |-> amount.val, currency |-> currency,
                 txn_date |-> txn_dt.val,
                 notes |-> OrNone(FormGet(form, "notes", <<>>))])

\* an edit that takes the date of the form and leaves ym as it was
edit_submit_keeps_ym(txn, form) ==
    LET ttype == Lower(Strip(FormGet(form, "type", <<>>)))
        category == Strip(FormGet(form, "category", <<>>))
        amount == float(FormGet(form, "amount", <<"0">>))
        txn_dt == fromisoformat(Strip(FormGet(form, "txn_date", <<>>)))
    IN  IF ~LineType(ttype).ok THEN LineType(ttype)
        ELSE IF ~amount.ok THEN amount
        ELSE IF ~txn_dt.ok THEN txn_dt
        ELSE IF category = <<>> THEN Raise("category is required")
        ELSE Ok([txn EXCEPT
                    !.type = ttype,
                    !.category = category,
                    !.subcategory = OrNone(Strip(FormGet(form, "subcategory", <<>>))),
                    !.amount = amount.val,
                    !.currency = Strip(FormGet(form, "currency", EUR)),
                    !.txn_date = txn_dt.val,
                    !.notes = OrNone(FormGet(form, "notes", <<>>))])

\* the try block of edit_submit: the transaction with its fields assigned, or
\* the exception
edit_submit_fields(txn, form) ==
    LET ttype == Lower(Strip(FormGet(form, "type", <<>>)))
        category == Strip(FormGet(form, "category", <<>>))
        amount == float(FormGet(form, "amount", <<"0">>))
        txn_dt == fromisoformat(Strip(FormGet(form, "txn_date", <<>>)))
    IN  IF ~LineType(ttype).ok THEN LineType(ttype)
        ELSE IF ~amount.ok THEN amount
        ELSE IF ~txn_dt.ok THEN txn_dt
        ELSE IF category = <<>> THEN Raise("category is required")
        ELSE Ok([txn EXCEPT
                    !.type = ttype,
                    !.category = category,
                    !.subcategory = OrNone(Strip(FormGet(form, "subcategory", <<>>))),
                    !.amount = amount.val,
                    !.currency = Strip(FormGet(form, "currency", EUR)),
                    !.txn_date = txn_dt.val,
                    !.ym = ym_from_date(txn_dt.val),
                    !.notes = OrNone(FormGet(form, "notes", <<>>))])

(***************************************************************************)
(* State.                                                                  *)
(***************************************************************************)
VARIABLES
    codec,      \* one use of the period codec: its input and what each call returned
    valid,      \* one use of the frequency validator: its arguments and its result
    budgets,    \* table budget
    lines,      \* table budget_line
    txns,       \* table transaction
    req,        \* the import request being served: its upload and the locals of its handler
    resp,       \* the response of the last request served
    calls,      \* the calls of _get_or_create_budget in flight, when requests overlap
    users,      \* table user
    session     \* the session cookies the browser holds, by cookie name

vars == <<codec, valid, budgets, lines, txns, req, resp, calls, users, session>>

app == <<budgets, lines, txns, req, resp, calls, users, session>>

\* no request yet
ReqIdle ==
    [pc |-> "idle", kind |-> "none", user |-> 0, utf8 |-> TRUE, file |-> <<>>,
     accepted |-> FALSE, budget_id |-> 0, pos |-> 0, row_idx |-> 0, created |-> 0,
     errors |-> <<>>, pending |-> <<>>, form |-> <<>>, target |-> 0,
     session_user |-> 0,
     store0 |-> [budgets |-> {}, lines |-> {}, txns |-> {}]]

RespNone == [status |-> 0, location |-> "", errors |-> <<>>]

\* a session nothing was written to: no user_id, no flashes
SessionEmpty == [user_id |-> 0, flashes |-> <<>>]

\* the names of the two session cookies: settings.session_cookie, and the
\* default name of SessionMiddleware
SessionCookies == {"pa_session", "session"}

\* a browser that holds no session cookie
NoCookies == [c \in SessionCookies |-> SessionEmpty]

\* the database right after the migrations: no rows
AppIdle ==
    /\ budgets = {}
    /\ lines = {}
    /\ txns = {}
    /\ req = ReqIdle
    /\ resp = RespNone
    /\ calls = <<>>
    /\ users = {}
    /\ session = NoCookies

(***************************************************************************)
(* The period codec on bounded inputs.                                     *)
(***************************************************************************)
\* the characters of the texts handed to mm_yy_to_ym: three digits (months 00,
\* 01, 02, 10, 11, 12, 20, 21, 22), the separator, whitespace and a character
\* that is none of these
InputAlphabet == {"0", "1", "2", "/", " ", "x"}

\* every text of at most MaxLen characters without the foreign character, and
\* every text of at most MaxLen - 2 characters with it
InputStrings ==
    UNION {[1..n -> InputAlphabet \ {"x"}] : n \in 0..MaxLen}
    \cup UNION {[1..n -> InputAlphabet] : n \in 0..(MaxLen - 2)}

\* years around which month keys are handed to ym_to_mm_yy
PivotYears == {0, 100, 1000, 2000, 2099, 10000}

InputYears == UNION {(p - YearWindow)..(p + YearWindow) : p \in PivotYears}

InputKeys == {y * 100 + mm : y \in InputYears, mm \in 0..99}

\* the years of the dates handed to ym_from_date: datetime.date has the years
\* 1..9999
DateYears == InputYears \cap (1..9999)

InputDates == {[year |-> y, month |-> m, day |-> 1] : y \in DateYears, m \in 1..12}

CodecIdle == [src |-> "none", s_in |-> <<>>, ym_in |-> 0,
              d_in |-> [year |-> 1, month |-> 1, day |-> 1],
              p_out |-> NoCall, f_out |-> NoCall, r_out |-> NoCall,
              e_out |-> NoCall, d_out |-> NoCall,
              lo_in |-> None, hi_in |-> None, i_out |-> NoCall]

ValidIdle == [frequency |-> <<>>, start_ym |-> None, end_ym |-> None,
              one_time_ym |-> None, out |-> NoCall]

InitCodec ==
    /\ codec \in {[CodecIdle EXCEPT !.src = "text", !.s_in = s] : s \in InputStrings}
                 \cup {[CodecIdle EXCEPT !.src = "key", !.ym_in = k] : k \in InputKeys}
                 \cup {[CodecIdle EXCEPT !.src = "date", !.d_in = d] : d \in InputDates}
    /\ valid = ValidIdle
    /\ AppIdle

\* mm_yy_to_ym(s) on an input text
ParseText ==
    /\ codec.src = "text" /\ ~Called(codec.p_out)
    /\ codec' = [codec EXCEPT !.p_out = mm_yy_to_ym(codec.s_in)]
    /\ UNCHANGED <<valid, app>>

\* ym_to_mm_yy of the key just parsed
FormatParsed ==
    /\ codec.src = "text" /\ codec.p_out.ok /\ ~Called(codec.f_out)
    /\ codec' = [codec EXCEPT !.f_out = ym_to_mm_yy(codec.p_out.val)]
    /\ UNCHANGED <<valid, app>>

\* mm_yy_to_ym of the text just formatted
ReparseFormatted ==
    /\ codec.src = "text" /\ codec.f_out.ok /\ ~Called(codec.r_out)
    /\ codec' = [codec EXCEPT !.r_out = mm_yy_to_ym(codec.f_out.val)]
    /\ UNCHANGED <<valid, app>>

\* ym_to_mm_yy(ym) on an input key
FormatKey ==
    /\ codec.src = "key" /\ ~Called(codec.f_out)
    /\ codec' = [codec EXCEPT !.f_out = ym_to_mm_yy(codec.ym_in)]
    /\ UNCHANGED <<valid, app>>

\* mm_yy_to_ym of the text just formatted from an input key
ParseFormatted ==
    /\ codec.src = "key" /\ codec.f_out.ok /\ ~Called(codec.p_out)
    /\ codec' = [codec EXCEPT !.p_out = mm_yy_to_ym(codec.f_out.val)]
    /\ UNCHANGED <<valid, app>>

\* ym_from_date(d) on an input date
EncodeDate ==
    /\ codec.src = "date" /\ ~Called(codec.e_out)
    /\ codec' = [codec EXCEPT !.e_out = Ok(ym_from_date(codec.d_in))]
    /\ UNCHANGED <<valid, app>>

\* the key just encoded, split as ym_to_mm_yy splits it
SplitEncoded ==
    /\ codec.src = "date" /\ codec.e_out.ok /\ ~Called(codec.d_out)
    /\ codec' = [codec EXCEPT !.d_out = Ok(ym_split(codec.e_out.val))]
    /\ UNCHANGED <<valid, app>>

NextCodec ==
    \/ EncodeDate
    \/ SplitEncoded
    \/ ParseText
    \/ FormatParsed
    \/ ReparseFormatted
    \/ FormatKey
    \/ ParseFormatted

SpecCodec == InitCodec /\ [][NextCodec]_vars

(***************************************************************************)
(* The frequency validator on bounded inputs.                              *)
(***************************************************************************)
\* number of distinct month keys offered for start, end and one_time
MaxMonthSample == 3

\* frequency texts: the two legal ones, case variants, and others
FrequencySamples ==
    { MONTHLY, ONE_TIME,
      <<"M", "o", "n", "t", "h", "l", "y">>,
      <<"O", "N", "E", "_", "T", "I", "M", "E">>,
      <<"w", "e", "e", "k", "l", "y">>,
      <<"m", "o", "n", "t", "h", "l", "y", " ">>,
      <<>> }

OptionalYms == {None} \cup {Some(202500 + m) : m \in 1..MaxMonthSample}

InitValidate ==
    /\ codec = CodecIdle
    /\ valid \in [frequency : FrequencySamples, start_ym : OptionalYms,
                  end_ym : OptionalYms, one_time_ym : OptionalYms, out : {NoCall}]
    /\ AppIdle

Validate ==
    /\ ~Called(valid.out)
    /\ valid' = [valid EXCEPT !.out = validate_line_frequency_fields(
                     valid.frequency, valid.start_ym, valid.end_ym, valid.one_time_ym)]
    /\ UNCHANGED <<codec, app>>

NextValidate == Validate

SpecValidate == InitValidate /\ [][NextValidate]_vars

(***************************************************************************)
(* The names app/period_ym.py defines, and a caller that asks for one.     *)
(***************************************************************************)
\* the functions of the module: its seven public names and one helper
period_ym_functions ==
    {"ym_from_date", "_yyyy_from_two_digit", "mm_yy_to_ym", "ym_to_mm_yy",
     "is_mm_yy", "parse_mm_yy", "format_ym", "validate_line_frequency_fields"}

\* from app.period_ym import <name>
import_from_period_ym(name) ==
    IF name \in period_ym_functions
    THEN Ok(name)
    ELSE Raise("ImportError: cannot import name from app.period_ym")

\* the month keys handed to the caller
RangeYms == {202500 + m : m \in 1..MaxMonthSample} \cup {202601}

InitRange ==
    /\ codec \in {[CodecIdle EXCEPT !.src = "range", !.ym_in = k,
                                    !.lo_in = lo, !.hi_in = hi]
                     : k \in RangeYms, lo \in OptionalYms, hi \in OptionalYms}
    /\ valid = ValidIdle
    /\ AppIdle

\* from app.period_ym import in_range; in_range(ym, start, end): the import
\* fails, so no call is made
CallInRange ==
    /\ codec.src = "range" /\ ~Called(codec.i_out)
    /\ codec' = [codec EXCEPT !.i_out = import_from_period_ym("in_range")]
    /\ UNCHANGED <<valid, app>>

NextRange == CallInRange

SpecRange == InitRange /\ [][NextRange]_vars

(***************************************************************************)
(* The uploads offered to the importers.                                   *)
(***************************************************************************)
\* the most rows there are: rows already in budget_line and transaction plus
\* data rows of the upload
MaxRows == 2

\* the user_id of the session cookie; 0 is a session without user_id
SessionUsers == {0, 1, 2}

LinesHeaders ==
    { required_cols,
      <<"category", "type", "subcategory", "amount", "currency", "frequency",
        "start_mm_yy", "end_mm_yy", "one_time_mm_yy">>,
      required_cols \o <<"notes">>,
      <<"type", "category", "amount", "frequency">> }

LinesRows ==
    { <<<<"i", "n", "c", "o", "m", "e">>,
       <<"S">>,
       <<>>,
       <<"1", "0", "0">>,
       <<"E", "U", "R">>,
       <<"m", "o", "n", "t", "h", "l", "y">>,
       <<"0", "1", "/", "2", "5">>,
       <<"1", "2", "/", "2", "5">>,
       <<>>>>,
      <<<<"i", "n", "c", "o", "m", "e">>,
       <<"B">>,
       <<>>,
       <<"5", "0">>,
       <<>>,
       <<"o", "n", "e", "_", "t", "i", "m", "e">>,
       <<>>,
       <<>>,
       <<"0", "6", "/", "2", "5">>>>,
      <<<<"e", "x", "p", "e", "n", "s", "e">>,
       <<"N">>,
       <<>>,
       <<"3", "0">>,
       <<"E", "U", "R">>,
       <<"m", "o", "n", "t", "h", "l", "y">>,
       <<>>,
       <<>>,
       <<>>>>,
      <<<<"g", "i", "f", "t">>,
       <<"S">>,
       <<>>,
       <<"1", "0">>,
       <<"E", "U", "R">>,
       <<"m", "o", "n", "t", "h", "l", "y">>,
       <<"0", "1", "/", "2", "5">>,
       <<>>,
       <<>>>>,
      <<>>,
      <<<<"S">>,
       <<" ", "E", "x", "p", "e", "n", "s", "e">>,
       <<>>,
       <<"7">>,
       <<"U", "S", "D">>,
       <<"M", "o", "n", "t", "h", "l", "y">>,
       <<"0", "2", "/", "2", "6">>,
       <<>>,
       <<"6", "/", "2", "5">>>>,
      <<<<"i", "n", "c", "o", "m", "e">>,
       <<"S">>>> }

TxHeaders ==
    { EXPECTED_HEADER,
      <<"type", "date", "category", "subcategory", "amount", "currency", "notes">>,
      EXPECTED_HEADER \o <<"tags">>,
      <<"date", "type", "category", "subcategory", "amount", "currency">>,
      <<>> }

TxRows ==
    { <<<<"2", "0", "2", "5", "-", "0", "1", "-", "1", "5">>,
       <<"i", "n", "c", "o", "m", "e">>,
       <<"S">>,
       <<>>,
       <<"1", "0">>,
       <<"E", "U", "R">>,
       <<"n">>>>,
      <<<<"2", "0", "2", "4", "-", "0", "2", "-", "2", "9">>,
       <<" ", "E", "x", "p", "e", "n", "s", "e", " ">>,
       <<"G">>,
       <<>>,
       <<"4", "5">>>>,
      <<<<"2", "0", "2", "5", "-", "0", "2", "-", "2", "9">>,
       <<"i", "n", "c", "o", "m", "e">>,
       <<"S">>,
       <<>>,
       <<"1", "0">>,
       <<"E", "U", "R">>,
       <<>>>>,
      <<<<"2", "0", "2", "5", "-", "0", "1", "-", "1", "5">>,
       <<"g", "i", "f", "t">>,
       <<"S">>,
       <<>>,
       <<"1", "0">>,
       <<"E", "U", "R">>,
       <<>>>>,
      <<>>,
      <<<<"2", "0", "2", "5", "-", "0", "3", "-", "0", "1">>,
       <<"e", "x", "p", "e", "n", "s", "e">>,
       <<"G">>,
       <<"x">>,
       <<"5">>,
       <<"U", "S", "D">>,
       <<"n">>,
       <<"m", "o", "r", "e">>>> }

\* the uploads with n data rows under header h
Upload(h, rows) == <<h>> \o rows

\* rows the tables and the upload may still take
Room == MaxRows - Cardinality(lines) - Cardinality(txns)

Store == [budgets |-> budgets, lines |-> lines, txns |-> txns]

HeaderMismatch == [row |-> 0, msg |-> "Header mismatch"]

EmptyCsv == [row |-> 0, msg |-> "CSV appears to be empty."]

NotUtf8 == [row |-> 0, msg |-> "File must be UTF-8 text (CSV)."]

RowError(idx, ex) == [row |-> idx, msg |-> ex.err]

Redirect(location) == [status |-> 303, location |-> location, errors |-> <<>>]

ErrorPage(errors) == [status |-> 400, location |-> "", errors |-> errors]

\* a request that has begun: the upload, and the tables as it found them
Received(kind, u, utf8, f) ==
    [ReqIdle EXCEPT !.kind = kind, !.user = u, !.utf8 = utf8, !.file = f,
                    !.session_user = u, !.store0 = Store]

Answered(r) == [r EXCEPT !.pc = "done"]

(***************************************************************************)
(* POST /budget/lines/import (lines_import_submit).                        *)
(***************************************************************************)
fieldnames(f) == IF Len(f) = 0 THEN None ELSE Some(f[1])

\* the rows DictReader still yields from position pos on: it skips empty rows
UnreadRows(f, pos) == {i \in pos..Len(f) : f[i] # <<>>}

\* a handler that fetches the budget before it looks at the header
LinesImportBeginBudgetFirst(u, f) ==
    /\ req.pc = "idle"
    /\ IF u = 0
       THEN /\ req' = Answered(Received("lines", u, TRUE, f))
            /\ resp' = Redirect("/auth/signin")
            /\ UNCHANGED <<budgets, lines, txns>>
       ELSE LET got == _get_or_create_budget(budgets, u)
            IN  /\ budgets' = got.budgets
                /\ UNCHANGED <<lines, txns>>
                /\ IF ~lines_header_ok(fieldnames(f))
                   THEN /\ req' = Answered(Received("lines", u, TRUE, f))
                        /\ resp' = ErrorPage(<<HeaderMismatch>>)
                   ELSE /\ req' = [Received("lines", u, TRUE, f) EXCEPT
                                      !.pc = "rows", !.accepted = TRUE,
                                      !.budget_id = got.bud.id, !.pos = 2, !.row_idx = 1]
                        /\ resp' = RespNone
    /\ UNCHANGED <<codec, valid, calls, users, session>>

\* up to the row loop: the session check, the header check, the budget
LinesImportBegin(u, f) ==
    /\ req.pc = "idle"
    /\ IF u = 0
       THEN /\ req' = Answered(Received("lines", u, TRUE, f))
            /\ resp' = Redirect("/auth/signin")
            /\ UNCHANGED <<budgets, lines, txns>>
       ELSE IF ~lines_header_ok(fieldnames(f))
       THEN /\ req' = Answered(Received("lines", u, TRUE, f))
            /\ resp' = ErrorPage(<<HeaderMismatch>>)
            /\ UNCHANGED <<budgets, lines, txns>>
       ELSE LET got == _get_or_create_budget(budgets, u)
            IN  /\ budgets' = got.budgets
                /\ req' = [Received("lines", u, TRUE, f) EXCEPT
                              !.pc = "rows", !.accepted = TRUE,
                              !.budget_id = got.bud.id, !.pos = 2, !.row_idx = 1]
                /\ resp' = RespNone
                /\ UNCHANGED <<lines, txns>>
    /\ UNCHANGED <<codec, valid, calls, users, session>>

\* a row loop whose except branch rolls the session back
LinesImportRowRollback ==
    /\ req.pc = "rows" /\ req.kind = "lines"
    /\ UnreadRows(req.file, req.pos) # {}
    /\ LET i == CHOOSE k \in UnreadRows(req.file, req.pos) :
                    \A l \in UnreadRows(req.file, req.pos) : k <= l
           idx == req.row_idx + 1
           r == lines_import_row(req.file[1], req.file[i])
       IN  req' = IF r.ok
                  THEN [req EXCEPT !.pos = i + 1, !.row_idx = idx,
                            !.pending = Append(@, [r.val EXCEPT !.budget_id = req.budget_id]),
                            !.created = @ + 1]
                  ELSE [req EXCEPT !.pos = i + 1, !.row_idx = idx,
                            !.pending = <<>>,
                            !.errors = Append(@, RowError(idx, r))]
    /\ UNCHANGED <<budgets, lines, txns, resp, codec, valid, calls, users, session>>

\* a row loop that numbers a row by its line in the file, blank lines counted
LinesImportRowPhysical ==
    /\ req.pc = "rows" /\ req.kind = "lines"
    /\ UnreadRows(req.file, req.pos) # {}
    /\ LET i == CHOOSE k \in UnreadRows(req.file, req.pos) :
                    \A l \in UnreadRows(req.file, req.pos) : k <= l
           r == lines_import_row(req.file[1], req.file[i])
       IN  req' = IF r.ok
                  THEN [req EXCEPT !.pos = i + 1, !.row_idx = i,
                            !.pending = Append(@, [r.val EXCEPT !.budget_id = req.budget_id]),
                            !.created = @ + 1]
                  ELSE [req EXCEPT !.pos = i + 1, !.row_idx = i,
                            !.errors = Append(@, RowError(i, r))]
    /\ UNCHANGED <<budgets, lines, txns, resp, codec, valid, calls, users, session>>

\* a row loop that passes over a failing row without a message
LinesImportRowSkipsSilently ==
    /\ req.pc = "rows" /\ req.kind = "lines"
    /\ UnreadRows(req.file, req.pos) # {}
    /\ LET i == CHOOSE k \in UnreadRows(req.file, req.pos) :
                    \A l \in UnreadRows(req.file, req.pos) : k <= l
           idx == req.row_idx + 1
           r == lines_import_row(req.file[1], req.file[i])
       IN  req' = IF r.ok
                  THEN [req EXCEPT !.pos = i + 1, !.row_idx = idx,
                            !.pending = Append(@, [r.val EXCEPT !.budget_id = req.budget_id]),
                            !.created = @ + 1]
                  ELSE [req EXCEPT !.pos = i + 1, !.row_idx = idx]
    /\ UNCHANGED <<budgets, lines, txns, resp, codec, valid, calls, users, session>>

\* one pass of the row loop: the line is added to the session, or the error kept
LinesImportRow ==
    /\ req.pc = "rows" /\ req.kind = "lines"
    /\ UnreadRows(req.file, req.pos) # {}
    /\ LET i == CHOOSE k \in UnreadRows(req.file, req.pos) :
                    \A l \in UnreadRows(req.file, req.pos) : k <= l
           idx == req.row_idx + 1
           r == lines_import_row(req.file[1], req.file[i])
       IN  req' = IF r.ok
                  THEN [req EXCEPT !.pos = i + 1, !.row_idx = idx,
                            !.pending = Append(@, [r.val EXCEPT !.budget_id = req.budget_id]),
                            !.created = @ + 1]
                  ELSE [req EXCEPT !.pos = i + 1, !.row_idx = idx,
                            !.errors = Append(@, RowError(idx, r))]
    /\ UNCHANGED <<budgets, lines, txns, resp, codec, valid, calls, users, session>>

\* the rows of the session with the ids the commit gives them, in order
Inserted(table, pending) ==
    {[pending[k] EXCEPT !.id = NextId(table) + k - 1] : k \in 1..Len(pending)}

\* a response that redirects as soon as one line was created
LinesImportFinishRedirects ==
    /\ req.pc = "rows" /\ req.kind = "lines"
    /\ UnreadRows(req.file, req.pos) = {}
    /\ lines' = lines \cup Inserted(lines, req.pending)
    /\ req' = Answered([req EXCEPT !.pos = Len(req.file) + 1, !.pending = <<>>])
    /\ resp' = IF req.errors # <<>> /\ req.created = 0 THEN ErrorPage(req.errors)
               ELSE Redirect("/budget/lines")
    /\ UNCHANGED <<budgets, txns, codec, valid, calls, users, session>>

\* after the loop: the commit of the session and the response
LinesImportFinish ==
    /\ req.pc = "rows" /\ req.kind = "lines"
    /\ UnreadRows(req.file, req.pos) = {}
    /\ lines' = lines \cup Inserted(lines, req.pending)
    /\ req' = Answered([req EXCEPT !.pos = Len(req.file) + 1, !.pending = <<>>])
    /\ resp' = IF req.errors # <<>> THEN ErrorPage(req.errors)
               ELSE Redirect("/budget/lines")
    /\ UNCHANGED <<budgets, txns, codec, valid, calls, users, session>>

(***************************************************************************)
(* POST /transactions/import (import_submit).                              *)
(***************************************************************************)
\* up to the row loop: the session check, the decoding, the header check, the
\* budget
TxImportBegin(u, utf8, f) ==
    /\ req.pc = "idle"
    /\ IF u = 0
       THEN /\ req' = Answered(Received("txns", u, utf8, f))
            /\ resp' = Redirect("/auth/signin")
            /\ UNCHANGED <<budgets, lines, txns>>
       ELSE IF ~utf8
       THEN /\ req' = Answered(Received("txns", u, utf8, f))
            /\ resp' = ErrorPage(<<NotUtf8>>)
            /\ UNCHANGED <<budgets, lines, txns>>
       ELSE IF Len(f) = 0
       THEN /\ req' = Answered(Received("txns", u, utf8, f))
            /\ resp' = ErrorPage(<<EmptyCsv>>)
            /\ UNCHANGED <<budgets, lines, txns>>
       ELSE IF ~import_header_ok(f[1])
       THEN /\ req' = Answered(Received("txns", u, utf8, f))
            /\ resp' = ErrorPage(<<HeaderMismatch>>)
            /\ UNCHANGED <<budgets, lines, txns>>
       ELSE LET got == import_get_or_create_budget(budgets, u)
            IN  /\ budgets' = got.budgets
                /\ req' = [Received("txns", u, utf8, f) EXCEPT
                              !.pc = "rows", !.accepted = TRUE,
                              !.budget_id = got.bud.id, !.pos = 2, !.row_idx = 1]
                /\ resp' = RespNone
                /\ UNCHANGED <<lines, txns>>
    /\ UNCHANGED <<codec, valid, calls, users, session>>

\* a row loop that reports a row before it counts it
TxImportRowFromOne ==
    /\ req.pc = "rows" /\ req.kind = "txns"
    /\ req.pos <= Len(req.file)
    /\ LET idx == req.row_idx
           r == import_row(req.file[req.pos])
       IN  IF r.ok
           THEN /\ txns' = create_transaction(
                               txns, req.budget_id, r.val.type, r.val.category,
                               r.val.subcategory, r.val.amount, r.val.currency,
                               r.val.txn_date, r.val.notes)
                /\ req' = [req EXCEPT !.pos = @ + 1, !.row_idx = idx + 1, !.created = @ + 1]
           ELSE /\ txns' = txns
                /\ req' = [req EXCEPT !.pos = @ + 1, !.row_idx = idx + 1,
                               !.errors = Append(@, RowError(idx, r))]
    /\ UNCHANGED <<budgets, lines, resp, codec, valid, calls, users, session>>

\* one pass of the row loop: the transaction is created and committed, or the
\* error kept
TxImportRow ==
    /\ req.pc = "rows" /\ req.kind = "txns"
    /\ req.pos <= Len(req.file)
    /\ LET idx == req.row_idx + 1
           r == import_row(req.file[req.pos])
       IN  IF r.ok
           THEN /\ txns' = create_transaction(
                               txns, req.budget_id, r.val.type, r.val.category,
                               r.val.subcategory, r.val.amount, r.val.currency,
                               r.val.txn_date, r.val.notes)
                /\ req' = [req EXCEPT !.pos = @ + 1, !.row_idx = idx, !.created = @ + 1]
           ELSE /\ txns' = txns
                /\ req' = [req EXCEPT !.pos = @ + 1, !.row_idx = idx,
                               !.errors = Append(@, RowError(idx, r))]
    /\ UNCHANGED <<budgets, lines, resp, codec, valid, calls, users, session>>

\* after the loop: the response
TxImportFinish ==
    /\ req.pc = "rows" /\ req.kind = "txns"
    /\ req.pos > Len(req.file)
    /\ req' = Answered(req)
    /\ resp' = IF req.errors # <<>> THEN ErrorPage(req.errors)
               ELSE Redirect("/transactions")
    /\ UNCHANGED <<budgets, lines, txns, codec, valid, calls, users, session>>

(***************************************************************************)
(* The forms submitted to the single-row handlers.                         *)
(***************************************************************************)
\* the most rows budget_line and transaction hold together when the forms are
\* in play
MaxStored == 1

\* the highest primary key a table hands out
MaxId == 2

\* rows the tables may still take
AppRoom == MaxStored - Cardinality(lines) - Cardinality(txns)

\* the ids a request may name: those that can exist
RowIds == 1..MaxId

\* a budget-line form: type, frequency and the three month fields vary
LineForm(type, frequency, start_mm_yy, end_mm_yy, one_time_mm_yy) ==
    [type |-> type, category |-> <<"S">>, subcategory |-> None, amount |-> 10,
     currency |-> EUR, frequency |-> frequency, start_mm_yy |-> start_mm_yy,
     end_mm_yy |-> end_mm_yy, one_time_mm_yy |-> one_time_mm_yy]

LineForms ==
    { LineForm(<<"i", "n", "c", "o", "m", "e">>, <<"m", "o", "n", "t", "h", "l", "y">>, Some(<<"0", "1", "/", "2", "5">>), None, None),
      LineForm(<<"e", "x", "p", "e", "n", "s", "e">>, <<"m", "o", "n", "t", "h", "l", "y">>, Some(<<"0", "1", "/", "2", "5">>), Some(<<"1", "2", "/", "2", "5">>), Some(<<"0", "6", "/", "2", "5">>)),
      LineForm(<<"i", "n", "c", "o", "m", "e">>, <<"o", "n", "e", "_", "t", "i", "m", "e">>, Some(<<"0", "1", "/", "2", "5">>), None, Some(<<"0", "6", "/", "2", "5">>)),
      LineForm(<<"i", "n", "c", "o", "m", "e">>, <<"m", "o", "n", "t", "h", "l", "y">>, None, None, None),
      LineForm(<<"i", "n", "c", "o", "m", "e">>, <<"m", "o", "n", "t", "h", "l", "y">>, Some(<<"1", "2", "/", "2", "5">>), Some(<<"0", "1", "/", "2", "5">>), None),
      LineForm(<<"i", "n", "c", "o", "m", "e">>, <<"m", "o", "n", "t", "h", "l", "y">>, Some(<<"1", "/", "2", "5">>), None, None),
      LineForm(<<"i", "n", "c", "o", "m", "e">>, <<"w", "e", "e", "k", "l", "y">>, Some(<<"0", "1", "/", "2", "5">>), None, None),
      LineForm(<<"g", "i", "f", "t">>, <<"m", "o", "n", "t", "h", "l", "y">>, Some(<<"0", "1", "/", "2", "5">>), None, None),
      LineForm(<<"i", "n", "c", "o", "m", "e">>, <<"M", "o", "n", "t", "h", "l", "y">>, Some(<<"0", "1", "/", "2", "5">>), None, None),
      LineForm(<<"i", "n", "c", "o", "m", "e">>, <<"o", "n", "e", "_", "t", "i", "m", "e">>, Some(<<>>), None, None),
      LineForm(<<"i", "n", "c", "o", "m", "e">>, <<"o", "n", "e", "_", "t", "i", "m", "e">>, Some(<<"1", "/", "2", "5">>), None, Some(<<"0", "6", "/", "2", "5">>)) }

\* a transaction form: type, category, amount and date vary
TxForm(type, category, amount, txn_date) ==
    [type |-> type, category |-> category, subcategory |-> None, amount |-> amount,
     currency |-> None, txn_date |-> txn_date, notes |-> None]

TxForms ==
    { TxForm(Some(<<"i", "n", "c", "o", "m", "e">>), Some(<<"S">>), Some(<<"1", "0">>), Some(<<"2", "0", "2", "5", "-", "0", "1", "-", "1", "5">>)),
      TxForm(Some(<<" ", "E", "x", "p", "e", "n", "s", "e", " ">>), Some(<<"G">>), None, Some(<<"2", "0", "2", "4", "-", "0", "2", "-", "2", "9">>)),
      TxForm(Some(<<"i", "n", "c", "o", "m", "e">>), Some(<<"S">>), Some(<<"1", "0">>), Some(<<"0", "0", "0", "1", "-", "0", "1", "-", "0", "1">>)),
      TxForm(Some(<<"g", "i", "f", "t">>), Some(<<"S">>), Some(<<"1", "0">>), Some(<<"2", "0", "2", "5", "-", "0", "1", "-", "1", "5">>)),
      TxForm(Some(<<"i", "n", "c", "o", "m", "e">>), None, Some(<<"1", "0">>), Some(<<"2", "0", "2", "5", "-", "0", "1", "-", "1", "5">>)),
      TxForm(Some(<<"i", "n", "c", "o", "m", "e">>), Some(<<"S">>), Some(<<"1", "0">>), Some(<<"2", "0", "2", "5", "-", "0", "2", "-", "3", "0">>)),
      TxForm(Some(<<"i", "n", "c", "o", "m", "e">>), Some(<<"S">>), Some(<<"x">>), Some(<<"2", "0", "2", "5", "-", "0", "1", "-", "1", "5">>)) }

FormError(ex) == [row |-> 0, msg |-> ex.err]

\* HTTPException(status_code=404)
NotFound == [status |-> 404, location |-> "", errors |-> <<>>]

\* an exception no handler catches
ServerError == [status |-> 500, location |-> "", errors |-> <<>>]

\* a form request that has begun
Submitted(kind, u, id, form) ==
    [Received(kind, u, TRUE, <<>>) EXCEPT !.form = form, !.target = id]

(***************************************************************************)
(* POST /budget/lines/new, /budget/lines/{id}/edit, /budget/lines/{id}/delete *)
(***************************************************************************)
create_line(u, form) ==
    /\ req.pc = "idle"
    /\ AppRoom > 0 /\ NextId(lines) <= MaxId
    /\ req' = Answered(Submitted("line_new", u, 0, form))
    /\ IF u = 0
       THEN /\ resp' = Redirect("/auth/signin")
            /\ UNCHANGED <<budgets, lines>>
       ELSE LET got == _get_or_create_budget(budgets, u)
                months == line_form_months(form)
                fields == line_form_fields(form, months.val)
            IN  /\ budgets' = got.budgets
                /\ IF ~months.ok
                   THEN /\ resp' = ErrorPage(<<FormError(months)>>)
                        /\ lines' = lines
                   ELSE IF ~fields.ok
                   THEN /\ resp' = ServerError
                        /\ lines' = lines
                   ELSE /\ lines' = lines \cup
                              {[id |-> NextId(lines), budget_id |-> got.bud.id,
                                is_active |-> TRUE] @@ fields.val}
                        /\ resp' = Redirect("/budget/lines")
    /\ UNCHANGED <<txns, codec, valid, calls, users, session>>

edit_line_submit(u, line_id, form) ==
    /\ req.pc = "idle"
    /\ req' = Answered(Submitted("line_edit", u, line_id, form))
    /\ IF u = 0
       THEN /\ resp' = Redirect("/auth/signin")
            /\ lines' = lines
       ELSE LET line == _get_line_for_user(budgets, lines, u, line_id)
                months == line_form_months(form)
                fields == line_form_fields(form, months.val)
            IN  IF line = None
                THEN /\ resp' = NotFound
                     /\ lines' = lines
                ELSE IF ~months.ok
                THEN /\ resp' = ErrorPage(<<FormError(months)>>)
                     /\ lines' = lines
                ELSE IF ~fields.ok
                THEN /\ resp' = ServerError
                     /\ lines' = lines
                ELSE /\ lines' = (lines \ {line[1]})
                                    \cup {edit_line_assign(line[1], fields.val)}
                     /\ resp' = Redirect("/budget/lines")
    /\ UNCHANGED <<budgets, txns, codec, valid, calls, users, session>>

delete_line(u, line_id) ==
    /\ req.pc = "idle"
    /\ req' = Answered(Submitted("line_delete", u, line_id, <<>>))
    /\ IF u = 0
       THEN /\ resp' = Redirect("/auth/signin")
            /\ lines' = lines
       ELSE LET line == _get_line_for_user(budgets, lines, u, line_id)
            IN  IF line = None
                THEN /\ resp' = NotFound
                     /\ lines' = lines
                ELSE /\ lines' = lines \ {line[1]}
                     /\ resp' = Redirect("/budget/lines")
    /\ UNCHANGED <<budgets, txns, codec, valid, calls, users, session>>

(***************************************************************************)
(* POST /transactions/new, /transactions/{id}/edit, /transactions/{id}/delete *)
(***************************************************************************)
\* session.get(Transaction, txn_id)
GetTxn(txn_id) ==
    IF \E x \in txns : x.id = txn_id
    THEN Some(CHOOSE x \in txns : x.id = txn_id) ELSE None

create_submit(u, form) ==
    /\ req.pc = "idle"
    /\ AppRoom > 0 /\ NextId(txns) <= MaxId
    /\ req' = Answered(Submitted("txn_new", u, 0, form))
    /\ IF u = 0
       THEN /\ resp' = Redirect("/auth/signin")
            /\ UNCHANGED <<budgets, txns>>
       ELSE LET a == create_submit_fields(form)
                got == tx_get_or_create_budget(budgets, u)
            IN  IF ~a.ok
                THEN /\ resp' = ErrorPage(<<FormError(a)>>)
                     /\ UNCHANGED <<budgets, txns>>
                ELSE /\ budgets' = got.budgets
                     /\ txns' = create_transaction(
                                    txns, got.bud.id, a.val.type, a.val.category,
                                    a.val.subcategory, a.val.amount, a.val.currency,
                                    a.val.txn_date, a.val.notes)
                     /\ resp' = Redirect("/transactions")
    /\ UNCHANGED <<lines, codec, valid, calls, users, session>>

edit_submit(u, txn_id, form) ==
    /\ req.pc = "idle"
    /\ req' = Answered(Submitted("txn_edit", u, txn_id, form))
    /\ IF u = 0
       THEN /\ resp' = Redirect("/auth/signin")
            /\ UNCHANGED <<budgets, txns>>
       ELSE LET got == tx_get_or_create_budget(budgets, u)
                txn == GetTxn(txn_id)
            IN  /\ budgets' = got.budgets
                /\ IF txn = None \/ txn[1].budget_id # got.bud.id
                   THEN /\ resp' = NotFound
                        /\ txns' = txns
                   ELSE LET e == edit_submit_fields(txn[1], form)
                        IN  IF ~e.ok
                            THEN /\ resp' = ErrorPage(<<FormError(e)>>)
                                 /\ txns' = txns
                            ELSE /\ txns' = (txns \ {txn[1]}) \cup {e.val}
                                 /\ resp' = Redirect("/transactions")
    /\ UNCHANGED <<lines, codec, valid, calls, users, session>>

\* a delete that looks the transaction up by its id alone
delete_submit_any_owner(u, txn_id) ==
    /\ req.pc = "idle"
    /\ req' = Answered(Submitted("txn_delete", u, txn_id, <<>>))
    /\ IF u = 0
       THEN /\ resp' = Redirect("/auth/signin")
            /\ UNCHANGED <<budgets, txns>>
       ELSE LET got == tx_get_or_create_budget(budgets, u)
                txn == GetTxn(txn_id)
            IN  /\ budgets' = got.budgets
                /\ txns' = IF txn # None THEN txns \ {txn[1]} ELSE txns
                /\ resp' = Redirect("/transactions")
    /\ UNCHANGED <<lines, codec, valid, calls, users, session>>

delete_submit(u, txn_id) ==
    /\ req.pc = "idle"
    /\ req' = Answered(Submitted("txn_delete", u, txn_id, <<>>))
    /\ IF u = 0
       THEN /\ resp' = Redirect("/auth/signin")
            /\ UNCHANGED <<budgets, txns>>
       ELSE LET got == tx_get_or_create_budget(budgets, u)
                txn == GetTxn(txn_id)
            IN  /\ budgets' = got.budgets
                /\ txns' = IF txn # None /\ txn[1].budget_id = got.bud.id
                           THEN txns \ {txn[1]} ELSE txns
                /\ resp' = Redirect("/transactions")
    /\ UNCHANGED <<lines, codec, valid, calls, users, session>>

(***************************************************************************)
(* The application: requests served one after the other.                   *)
(***************************************************************************)
\* the response has been sent: the session of the request is closed and the
\* locals of the handler are gone
RequestEnd ==
    /\ req.pc = "done"
    /\ req' = ReqIdle
    /\ resp' = RespNone
    /\ UNCHANGED <<budgets, lines, txns, codec, valid, calls, users, session>>

Init ==
    /\ codec = CodecIdle
    /\ valid = ValidIdle
    /\ AppIdle

Next ==
    \/ \E u \in SessionUsers, h \in LinesHeaders, n \in 0..Room :
          \E rows \in [1..n -> LinesRows] : LinesImportBegin(u, Upload(h, rows))
    \/ \E u \in SessionUsers : LinesImportBegin(u, <<>>)
    \/ LinesImportRow
    \/ LinesImportFinish
    \/ \E u \in SessionUsers, h \in TxHeaders, n \in 0..Room :
          \E rows \in [1..n -> TxRows] : TxImportBegin(u, TRUE, Upload(h, rows))
    \/ \E u \in SessionUsers, utf8 \in BOOLEAN : TxImportBegin(u, utf8, <<>>)
    \/ TxImportRow
    \/ TxImportFinish
    \/ RequestEnd

Spec == Init /\ [][Next]_vars

(***************************************************************************)
(* The application with its forms: every write operation on the store.     *)
(***************************************************************************)
NextApp ==
    \/ \E u \in SessionUsers, form \in LineForms : create_line(u, form)
    \/ \E u \in SessionUsers, id \in RowIds, form \in LineForms :
          edit_line_submit(u, id, form)
    \/ \E u \in SessionUsers, id \in RowIds : delete_line(u, id)
    \/ \E u \in SessionUsers, form \in TxForms : create_submit(u, form)
    \/ \E u \in SessionUsers, id \in RowIds, form \in TxForms : edit_submit(u, id, form)
    \/ \E u \in SessionUsers, id \in RowIds : delete_submit(u, id)
    \/ \E u \in SessionUsers, h \in LinesHeaders, n \in 0..AppRoom :
          /\ NextId(lines) + n <= MaxId + 1
          /\ \E rows \in [1..n -> LinesRows] : LinesImportBegin(u, Upload(h, rows))
    \/ LinesImportRow
    \/ LinesImportFinish
    \/ \E u \in SessionUsers, h \in TxHeaders, n \in 0..AppRoom :
          /\ NextId(txns) + n <= MaxId + 1
          /\ \E rows \in [1..n -> TxRows] : TxImportBegin(u, TRUE, Upload(h, rows))
    \/ TxImportRow
    \/ TxImportFinish
    \/ RequestEnd

SpecApp == Init /\ [][NextApp]_vars

(***************************************************************************)
(* The application as app/main.py mounts it: the budget router and the     *)
(* auth router.  Every request carries the session of some browser, so the *)
(* user_id and the CSRF token of its session are inputs of the request;    *)
(* req.session_user is the user_id the session holds when the handler      *)
(* returns.                                                                *)
(***************************************************************************)
\* a rendered template
Page == [status |-> 200, location |-> "", errors |-> <<>>]

\* GET /budget/lines
list_lines_unguarded(u) ==
    /\ req.pc = "idle"
    /\ req' = Answered(Submitted("line_list", u, 0, <<>>))
    /\ budgets' = _get_or_create_budget(budgets, u).budgets
    /\ resp' = Page
    /\ UNCHANGED <<lines, txns, codec, valid, calls, users, session>>

list_lines(u) ==
    /\ req.pc = "idle"
    /\ req' = Answered(Submitted("line_list", u, 0, <<>>))
    /\ IF u = 0
       THEN /\ resp' = Redirect("/auth/signin")
            /\ budgets' = budgets
       ELSE /\ budgets' = _get_or_create_budget(budgets, u).budgets
            /\ resp' = Page
    /\ UNCHANGED <<lines, txns, codec, valid, calls, users, session>>

\* GET /budget/lines/new
new_line_form(u) ==
    /\ req.pc = "idle"
    /\ req' = Answered(Submitted("line_new_form", u, 0, <<>>))
    /\ resp' = IF u = 0 THEN Redirect("/auth/signin") ELSE Page
    /\ UNCHANGED <<budgets, lines, txns, codec, valid, calls, users, session>>

\* GET /budget/lines/{line_id}/edit
edit_line_form(u, line_id) ==
    /\ req.pc = "idle"
    /\ req' = Answered(Submitted("line_edit_form", u, line_id, <<>>))
    /\ resp' = IF u = 0 THEN Redirect("/auth/signin")
               ELSE IF _get_line_for_user(budgets, lines, u, line_id) = None
               THEN NotFound ELSE Page
    /\ UNCHANGED <<budgets, lines, txns, codec, valid, calls, users, session>>

\* GET /budget/lines/import
lines_import_form(u) ==
    /\ req.pc = "idle"
    /\ req' = Answered(Submitted("lines_import_form", u, 0, <<>>))
    /\ resp' = IF u = 0 THEN Redirect("/auth/signin") ELSE Page
    /\ UNCHANGED <<budgets, lines, txns, codec, valid, calls, users, session>>

\* GET /budget/lines/template.csv: no session is asked for
lines_template_csv(u) ==
    /\ req.pc = "idle"
    /\ req' = Answered(Submitted("lines_template", u, 0, <<>>))
    /\ resp' = Page
    /\ UNCHANGED <<budgets, lines, txns, codec, valid, calls, users, session>>

\* the e-mail addresses and passwords the forms of the auth router carry
Emails == {"a@example.org", "b@example.org"}

Passwords == {"secret", "other"}

\* the CSRF token a session holds, "" for none
SessionTokens == {"", "t1"}

\* pwd_context.hash(plain): the hash stands for the password it was made of
hash_password(plain) == <<"bcrypt_sha256", plain>>

verify_password(plain, hashed) == hashed = hash_password(plain)

validate_csrf(token_in_session, token_from_form) ==
    /\ token_in_session # ""
    /\ token_from_form # ""
    /\ token_in_session = token_from_form

\* the form of an auth request and the CSRF token of its session
AuthForm(email, password, csrf_token, token_in_session) ==
    [email |-> email, password |-> password, csrf_token |-> csrf_token,
     token_in_session |-> token_in_session]

AuthError(msg) == ErrorPage(<<[row |-> 0, msg |-> msg]>>)

\* session.exec(select(User).where(User.email == email)).first()
UserByEmail(email) ==
    IF \E x \in users : x.email = email
    THEN Some(CHOOSE x \in users : x.email = email /\
                  \A y \in users : y.email = email => x.id <= y.id)
    ELSE None

\* session.get(User, user_id)
GetUser(user_id) ==
    IF \E x \in users : x.id = user_id
    THEN Some(CHOOSE x \in users : x.id = user_id) ELSE None

\* POST /auth/signup, requests served one after the other
signup_submit(u, form) ==
    /\ req.pc = "idle"
    /\ NextId(users) \in SessionUsers
    /\ IF ~validate_csrf(form.token_in_session, form.csrf_token)
       THEN /\ resp' = AuthError("CSRF ungültig. Bitte erneut senden.")
            /\ users' = users
            /\ req' = Answered(Submitted("signup", u, 0, form))
       ELSE IF UserByEmail(form.email) # None
       THEN /\ resp' = AuthError("E-Mail bereits registriert.")
            /\ users' = users
            /\ req' = Answered(Submitted("signup", u, 0, form))
       ELSE /\ users' = users \cup {[id |-> NextId(users), email |-> form.email,
                                     hashed_password |-> hash_password(form.password)]}
            /\ resp' = Redirect("/")
            /\ req' = [Answered(Submitted("signup", u, 0, form))
                          EXCEPT !.session_user = NextId(users)]
    /\ UNCHANGED <<budgets, lines, txns, codec, valid, calls, session>>

\* POST /auth/signin
signin_submit(u, form) ==
    /\ req.pc = "idle"
    /\ LET user == UserByEmail(form.email)
       IN  IF ~validate_csrf(form.token_in_session, form.csrf_token)
           THEN /\ resp' = AuthError("CSRF ungültig. Bitte erneut senden.")
                /\ req' = Answered(Submitted("signin", u, 0, form))
           ELSE IF user = None \/ ~verify_password(form.password, user[1].hashed_password)
           THEN /\ resp' = AuthError("E-Mail oder Passwort falsch.")
                /\ req' = Answered(Submitted("signin", u, 0, form))
           ELSE /\ resp' = Redirect("/")
                /\ req' = [Answered(Submitted("signin", u, 0, form))
                              EXCEPT !.session_user = user[1].id]
    /\ UNCHANGED <<budgets, lines, txns, codec, valid, calls, users, session>>

\* GET /auth/signout
signout(u) ==
    /\ req.pc = "idle"
    /\ req' = [Answered(Submitted("signout", u, 0, <<>>)) EXCEPT !.session_user = 0]
    /\ resp' = Redirect("/")
    /\ UNCHANGED <<budgets, lines, txns, codec, valid, calls, users, session>>

\* an account deletion that takes the budgets of the user and their lines along
account_delete_cascade(u, form, fk) ==
    /\ req.pc = "idle"
    /\ LET user == GetUser(u)
           gone == {b \in budgets : b.user_id = u}
       IN  IF u # 0 /\ validate_csrf(form.token_in_session, form.csrf_token)
              /\ user # None /\ verify_password(form.password, user[1].hashed_password)
           THEN /\ users' = users \ {user[1]}
                /\ budgets' = budgets \ gone
                /\ lines' = {l \in lines : \A b \in gone : l.budget_id # b.id}
                /\ resp' = Redirect("/")
                /\ req' = [Answered(Submitted("account_delete", u, 0, form))
                              EXCEPT !.session_user = 0]
           ELSE /\ resp' = Redirect("/auth/signin")
                /\ req' = Answered(Submitted("account_delete", u, 0, form))
                /\ UNCHANGED <<users, budgets, lines>>
    /\ UNCHANGED <<txns, codec, valid, calls, session>>

\* whether the database enforces budget.user_id -> user.id: SQLite, the default
\* DATABASE_URL, does not unless asked to; PostgreSQL does
ForeignKeys == BOOLEAN

\* POST /auth/delete (delete_submit of app/routers/auth.py)
account_delete_submit(u, form, fk) ==
    /\ req.pc = "idle"
    /\ LET user == GetUser(u)
       IN  IF u = 0
           THEN /\ resp' = Redirect("/auth/signin")
                /\ users' = users
                /\ req' = Answered(Submitted("account_delete", u, 0, form))
           ELSE IF ~validate_csrf(form.token_in_session, form.csrf_token)
           THEN /\ resp' = AuthError("CSRF ungültig. Bitte erneut senden.")
                /\ users' = users
                /\ req' = Answered(Submitted("account_delete", u, 0, form))
           ELSE IF user = None
           THEN /\ resp' = Redirect("/auth/signin")
                /\ users' = users
                /\ req' = [Answered(Submitted("account_delete", u, 0, form))
                              EXCEPT !.session_user = 0]
           ELSE IF ~verify_password(form.password, user[1].hashed_password)
           THEN /\ resp' = AuthError("Passwort stimmt nicht.")
                /\ users' = users
                /\ req' = Answered(Submitted("account_delete", u, 0, form))
           ELSE IF fk /\ \E b \in budgets : b.user_id = user[1].id
           THEN /\ resp' = ServerError
                /\ users' = users
                /\ req' = Answered(Submitted("account_delete", u, 0, form))
           ELSE /\ users' = users \ {user[1]}
                /\ resp' = Redirect("/")
                /\ req' = [Answered(Submitted("account_delete", u, 0, form))
                              EXCEPT !.session_user = 0]
    /\ UNCHANGED <<budgets, lines, txns, codec, valid, calls, session>>

\* the forms of the auth router
SignupForms ==
    {AuthForm(e, "secret", ft, "t1") : e \in Emails, ft \in {"t1", "t2"}}

SigninForms ==
    {AuthForm(e, pw, "t1", "t1") : e \in Emails, pw \in Passwords}

DeleteForms ==
    {AuthForm("", pw, ft, "t1") : pw \in Passwords, ft \in {"t1", "t2"}}

NextSite ==
    \/ \E u \in SessionUsers : list_lines(u)
    \/ \E u \in SessionUsers : new_line_form(u)
    \/ \E u \in SessionUsers, form \in LineForms : create_line(u, form)
    \/ \E u \in SessionUsers, id \in RowIds : edit_line_form(u, id)
    \/ \E u \in SessionUsers, id \in RowIds, form \in LineForms :
          edit_line_submit(u, id, form)
    \/ \E u \in SessionUsers, id \in RowIds : delete_line(u, id)
    \/ \E u \in SessionUsers : lines_template_csv(u)
    \/ \E u \in SessionUsers : lines_import_form(u)
    \/ \E u \in SessionUsers, h \in LinesHeaders, n \in 0..AppRoom :
          /\ NextId(lines) + n <= MaxId + 1
          /\ \E rows \in [1..n -> LinesRows] : LinesImportBegin(u, Upload(h, rows))
    \/ LinesImportRow
    \/ LinesImportFinish
    \/ \E form \in SignupForms : signup_submit(0, form)
    \/ \E form \in SigninForms : signin_submit(0, form)
    \/ \E u \in SessionUsers : signout(u)
    \/ \E u \in SessionUsers, form \in DeleteForms, fk \in ForeignKeys :
          account_delete_submit(u, form, fk)
    \/ RequestEnd

SpecSite == Init /\ [][NextSite]_vars

(***************************************************************************)
(* app/flash.py and the middleware of app/main.py: one request at a time   *)
(* on its way in through the middleware, in the endpoint, and on its way   *)
(* out.  calls holds the request in flight: its ASGI scope and its         *)
(* request.state.                                                          *)
(***************************************************************************)
\* the flashes a session may hold before the browser stops sending requests
MaxFlashes == 2

\* the app.add_middleware calls of app/main.py, in the order they are made
AddedMiddleware ==
    <<[cls |-> "SessionMiddleware", session_cookie |-> "pa_session"],
      [cls |-> "SessionMiddleware", session_cookie |-> "session"],
      [cls |-> "FlashMiddleware", session_cookie |-> ""],
      [cls |-> "RequestLogMiddleware", session_cookie |-> ""]>>

\* add_middleware puts a class in front of those added before it, and a
\* request enters the stack from the front: the class added last is outermost
MiddlewareStack ==
    [k \in 1..Len(AddedMiddleware) |-> AddedMiddleware[Len(AddedMiddleware) + 1 - k]]

\* _get_session_like: scope is None while "session" is not in request.scope,
\* and then the store is the per-request fallback dict
_get_session_like(scope, fallback) ==
    IF scope # None THEN scope[1]
    ELSE IF fallback # None THEN fallback[1] ELSE SessionEmpty

\* the scope and the fallback after store[_FLASH_KEY] = items
FlashStored(scope, fallback, items) ==
    IF scope # None
    THEN [scope |-> Some([scope[1] EXCEPT !.flashes = items]), fallback |-> fallback]
    ELSE [scope |-> scope,
          fallback |-> Some([_get_session_like(scope, fallback) EXCEPT !.flashes = items])]

\* flash(request, message, category)
flash(scope, fallback, message, category) ==
    LET items == Append(_get_session_like(scope, fallback).flashes, <<category, message>>)
    IN  FlashStored(scope, fallback, items)

\* _pop_flashes(request): the items, and the scope and fallback it leaves
_pop_flashes(scope, fallback) ==
    LET items == _get_session_like(scope, fallback).flashes
        touched == IF scope = None /\ fallback = None
                   THEN [scope |-> scope, fallback |-> Some(SessionEmpty)]
                   ELSE [scope |-> scope, fallback |-> fallback]
    IN  IF items # <<>>
        THEN [items |-> items] @@ FlashStored(scope, fallback, <<>>)
        ELSE [items |-> items] @@ touched

\* the add_flash call a handler of the budget router ends with
FlashOf(r, answer) ==
    IF answer # Redirect("/budget/lines") THEN None
    ELSE IF r.kind = "line_new" THEN Some("Budget line created.")
    ELSE IF r.kind = "line_edit" THEN Some("Budget line updated.")
    ELSE IF r.kind = "line_delete" THEN Some("Budget line deleted.")
    ELSE None

\* the session the endpoint works with: the one the innermost
\* SessionMiddleware loads
EndpointCookie ==
    LET at == {k \in 1..Len(MiddlewareStack) : MiddlewareStack[k].cls = "SessionMiddleware"}
    IN  MiddlewareStack[CHOOSE k \in at : \A l \in at : l <= k].session_cookie

\* a browser signed in as one of the users, with no flash queued
InitFlash ==
    /\ codec = CodecIdle
    /\ valid = ValidIdle
    /\ budgets = {} /\ lines = {} /\ txns = {} /\ users = {}
    /\ req = ReqIdle /\ resp = RespNone
    /\ calls = <<>>
    /\ session \in {[c \in SessionCookies |-> [user_id |-> u, flashes |-> <<>>]]
                       : u \in SessionUsers \ {0}}

\* the browser sends a request with its cookies
Arrive ==
    /\ calls = <<>> /\ req.pc = "idle"
    /\ Len(session[EndpointCookie].flashes) < MaxFlashes
    /\ calls' = <<[pc |-> "in", depth |-> 0, scope |-> None, state_flashes |-> None,
                   fallback |-> None, jar0 |-> session]>>
    /\ UNCHANGED <<codec, valid, budgets, lines, txns, req, resp, users, session>>

\* the request enters the next middleware of the stack: SessionMiddleware
\* loads its cookie into scope["session"], FlashMiddleware.dispatch sets
\* request.state.flashes = _pop_flashes(request), RequestLogMiddleware reads
Dispatch ==
    /\ calls # <<>> /\ calls[1].pc = "in"
    /\ LET c == calls[1]
           m == MiddlewareStack[c.depth + 1]
           popped == _pop_flashes(c.scope, c.fallback)
           entered == IF m.cls = "SessionMiddleware"
                      THEN [c EXCEPT !.scope = Some(session[m.session_cookie])]
                      ELSE IF m.cls = "FlashMiddleware"
                      THEN [c EXCEPT !.state_flashes = Some(popped.items),
                                     !.scope = popped.scope,
                                     !.fallback = popped.fallback]
                      ELSE c
       IN  calls' = <<[entered EXCEPT
                          !.depth = c.depth + 1,
                          !.pc = IF c.depth + 1 = Len(MiddlewareStack)
                                 THEN "endpoint" ELSE "in"]>>
    /\ UNCHANGED <<codec, valid, budgets, lines, txns, req, resp, users, session>>

\* the endpoint runs with the user_id of request.session
Endpoint ==
    /\ calls # <<>> /\ calls[1].pc = "endpoint" /\ req.pc = "idle"
    /\ LET u == calls[1].scope[1].user_id
       IN  \/ list_lines(u)
           \/ \E form \in LineForms : create_line(u, form)
           \/ \E id \in RowIds : delete_line(u, id)

\* the endpoint returns: its add_flash call, if it makes one
EndpointReturn ==
    /\ calls # <<>> /\ calls[1].pc = "endpoint" /\ req.pc = "done"
    /\ LET c == calls[1]
           msg == FlashOf(req, resp)
           stored == flash(c.scope, c.fallback, msg[1], "success")
       IN  calls' = <<IF msg = None THEN [c EXCEPT !.pc = "out"]
                      ELSE [c EXCEPT !.pc = "out", !.scope = stored.scope,
                                     !.fallback = stored.fallback]>>
    /\ UNCHANGED <<codec, valid, budgets, lines, txns, req, resp, users, session>>

\* the response leaves a middleware: SessionMiddleware writes scope["session"]
\* to its cookie
Leave ==
    /\ calls # <<>> /\ calls[1].pc = "out" /\ calls[1].depth > 0
    /\ LET c == calls[1]
           m == MiddlewareStack[c.depth]
       IN  /\ session' = IF m.cls = "SessionMiddleware"
                         THEN [session EXCEPT ![m.session_cookie] = c.scope[1]]
                         ELSE session
           /\ calls' = <<[c EXCEPT !.depth = c.depth - 1]>>
    /\ UNCHANGED <<codec, valid, budgets, lines, txns, req, resp, users>>

\* the browser has the response
ResponseReceived ==
    /\ calls # <<>> /\ calls[1].pc = "out" /\ calls[1].depth = 0
    /\ calls' = <<>>
    /\ req' = ReqIdle
    /\ resp' = RespNone
    /\ UNCHANGED <<codec, valid, budgets, lines, txns, users, session>>

NextFlash ==
    \/ Arrive
    \/ Dispatch
    \/ Endpoint
    \/ EndpointReturn
    \/ Leave
    \/ ResponseReceived

SpecFlash == InitFlash /\ [][NextFlash]_vars

(***************************************************************************)
(* Overlapping requests in _get_or_create_budget.  The handlers declared   *)
(* with def run in worker threads, each with a Session of its own, so the  *)
(* statements of two calls interleave.                                     *)
(***************************************************************************)
\* the requests in flight at once
RaceRequests == 2

\* the budget table the overlapping requests find: every choice of the users
\* who already own a budget
RaceStores ==
    { {}, {[id |-> 1, user_id |-> 1, name |-> "Main", is_active |-> TRUE]},
      {[id |-> 1, user_id |-> 2, name |-> "Main", is_active |-> TRUE]},
      {[id |-> 1, user_id |-> 1, name |-> "Main", is_active |-> TRUE],
       [id |-> 2, user_id |-> 2, name |-> "Main", is_active |-> TRUE]} }

InitRace ==
    /\ codec = CodecIdle
    /\ valid = ValidIdle
    /\ budgets \in RaceStores
    /\ lines = {} /\ txns = {} /\ users = {}
    /\ req = ReqIdle /\ resp = RespNone
    /\ session = NoCookies
    /\ calls \in [1..RaceRequests ->
                    {[user |-> u, pc |-> "start", seen |-> None, bud |-> 0]
                        : u \in SessionUsers \ {0}}]

\* stmt = select(Budget).where(...); bud = session.exec(stmt).first()
SelectActive(p) ==
    /\ calls[p].pc = "start"
    /\ LET found == {b \in budgets : b.user_id = calls[p].user /\ b.is_active}
       IN  calls' = [calls EXCEPT ![p].pc = "selected",
                        ![p].seen = IF found = {} THEN None
                                    ELSE Some(CHOOSE b \in found :
                                                  \A c \in found : b.id <= c.id)]
    /\ UNCHANGED <<codec, valid, budgets, lines, txns, req, resp, users, session>>

\* if bud: return bud
ReturnFound(p) ==
    /\ calls[p].pc = "selected" /\ calls[p].seen # None
    /\ calls' = [calls EXCEPT ![p].pc = "returned", ![p].bud = calls[p].seen[1].id]
    /\ UNCHANGED <<codec, valid, budgets, lines, txns, req, resp, users, session>>

\* an insert under a unique index on the owner of an active budget: the
\* second insert is refused and the row that is there is returned
InsertBudgetUnique(p) ==
    /\ calls[p].pc = "selected" /\ calls[p].seen = None
    /\ LET got == _get_or_create_budget(budgets, calls[p].user)
       IN  /\ budgets' = got.budgets
           /\ calls' = [calls EXCEPT ![p].pc = "returned", ![p].bud = got.bud.id]
    /\ UNCHANGED <<codec, valid, lines, txns, req, resp, users, session>>

\* bud = Budget(...); session.add(bud); session.commit(); session.refresh(bud):
\* the table has no constraint that refuses the row
InsertBudget(p) ==
    /\ calls[p].pc = "selected" /\ calls[p].seen = None
    /\ budgets' = budgets \cup {[id |-> NextId(budgets), user_id |-> calls[p].user,
                                 name |-> "Main", is_active |-> TRUE]}
    /\ calls' = [calls EXCEPT ![p].pc = "returned", ![p].bud = NextId(budgets)]
    /\ UNCHANGED <<codec, valid, lines, txns, req, resp, users, session>>

NextRace ==
    \E p \in 1..RaceRequests :
        \/ SelectActive(p)
        \/ ReturnFound(p)
        \/ InsertBudget(p)

SpecRace == InitRace /\ [][NextRace]_vars

(***************************************************************************)
(* Overlapping signups.  signup_submit is a coroutine, but every request   *)
(* has a database session of its own and the workers of a deployment run   *)
(* side by side, so the select of one request and the commit of another    *)
(* interleave.  calls[p].session_user is the user_id of the session of     *)
(* request p.                                                              *)
(***************************************************************************)
\* the user table the signups find
SignupStores ==
    { {}, {[id |-> 1, email |-> "a@example.org",
            hashed_password |-> hash_password("secret")]} }

InitSignup ==
    /\ codec = CodecIdle
    /\ valid = ValidIdle
    /\ budgets = {} /\ lines = {} /\ txns = {}
    /\ req = ReqIdle /\ resp = RespNone
    /\ session = NoCookies
    /\ users \in SignupStores
    /\ calls \in [1..RaceRequests ->
                    {[form |-> f, pc |-> "start", seen |-> None, session_user |-> 0,
                      resp |-> RespNone]
                        : f \in {AuthForm(e, pw, "t1", st) :
                                    e \in Emails, pw \in Passwords, st \in SessionTokens}}]

\* validate_csrf, then exists = session.exec(select(User).where(...)).first()
SignupSelect(p) ==
    /\ calls[p].pc = "start"
    /\ LET f == calls[p].form
       IN  calls' = IF ~validate_csrf(f.token_in_session, f.csrf_token)
                    THEN [calls EXCEPT ![p].pc = "returned",
                             ![p].resp = AuthError("CSRF ungültig. Bitte erneut senden.")]
                    ELSE [calls EXCEPT ![p].pc = "selected",
                             ![p].seen = UserByEmail(f.email)]
    /\ UNCHANGED <<codec, valid, budgets, lines, txns, req, resp, users, session>>

\* if exists: the 400 form
SignupExists(p) ==
    /\ calls[p].pc = "selected" /\ calls[p].seen # None
    /\ calls' = [calls EXCEPT ![p].pc = "returned",
                    ![p].resp = AuthError("E-Mail bereits registriert.")]
    /\ UNCHANGED <<codec, valid, budgets, lines, txns, req, resp, users, session>>

\* an insert into a user table without the unique constraint on email
SignupInsertUnconstrained(p) ==
    /\ calls[p].pc = "selected" /\ calls[p].seen = None
    /\ LET f == calls[p].form
       IN  /\ users' = users \cup {[id |-> NextId(users), email |-> f.email,
                                    hashed_password |-> hash_password(f.password)]}
           /\ calls' = [calls EXCEPT ![p].pc = "returned",
                           ![p].session_user = NextId(users),
                           ![p].resp = Redirect("/")]
    /\ UNCHANGED <<codec, valid, budgets, lines, txns, req, resp, session>>

\* session.add(user); session.commit(); session.refresh(user): uq_users_email
\* refuses a second row of the same email with IntegrityError, which the
\* handler answers with the 400 form after a rollback
SignupInsert(p) ==
    /\ calls[p].pc = "selected" /\ calls[p].seen = None
    /\ LET f == calls[p].form
       IN  IF \E x \in users : x.email = f.email
           THEN /\ users' = users
                /\ calls' = [calls EXCEPT ![p].pc = "returned",
                                ![p].resp = AuthError("E-Mail bereits registriert.")]
           ELSE /\ users' = users \cup {[id |-> NextId(users), email |-> f.email,
                                         hashed_password |-> hash_password(f.password)]}
                /\ calls' = [calls EXCEPT ![p].pc = "returned",
                                ![p].session_user = NextId(users),
                                ![p].resp = Redirect("/")]
    /\ UNCHANGED <<codec, valid, budgets, lines, txns, req, resp, session>>

NextSignup ==
    \E p \in 1..RaceRequests :
        \/ SignupSelect(p)
        \/ SignupExists(p)
        \/ SignupInsert(p)

SpecSignup == InitSignup /\ [][NextSignup]_vars

(***************************************************************************)
(* Properties of the importers (Spec).                                     *)
(***************************************************************************)
\* the request got as far as the header check
HeaderChecked ==
    /\ req.pc # "idle" /\ req.user # 0 /\ req.utf8
    /\ req.kind = "txns" => Len(req.file) > 0

HeaderRejected == HeaderChecked /\ ~req.accepted

\* the data rows of the upload below position pos whose parsing and
\* validation pass
PassingRows(pos) ==
    IF req.kind = "lines"
    THEN {i \in 2..(pos - 1) :
             req.file[i] # <<>> /\ lines_import_row(req.file[1], req.file[i]).ok}
    ELSE {i \in 2..(pos - 1) : import_row(req.file[i]).ok}

\* the id of the entity of passing row i: ids are given in row order
IdOfRow(table0, pos, i) ==
    NextId(table0) + Cardinality({j \in PassingRows(pos) : j < i})

\* the budget lines the rows below pos stand for
LinesOfRows(pos) ==
    {[lines_import_row(req.file[1], req.file[i]).val EXCEPT
         !.id = IdOfRow(req.store0.lines, pos, i), !.budget_id = req.budget_id]
     : i \in PassingRows(pos)}

\* the transactions the rows below pos stand for
TxnsOfRows(pos) ==
    {LET a == import_row(req.file[i]).val
     IN  [id |-> IdOfRow(req.store0.txns, pos, i), budget_id |-> req.budget_id,
          type |-> a.type, category |-> a.category, subcategory |-> a.subcategory,
          amount |-> a.amount, currency |-> a.currency, txn_date |-> a.txn_date,
          ym |-> a.txn_date.year * 100 + a.txn_date.month, notes |-> a.notes]
     : i \in PassingRows(pos)}

\* C1: once the header is accepted, each data row's outcome depends only on
\* that row: after the import the store holds one new entity for exactly the
\* rows that pass parsing and validation, in both importers; a rejected row
\* neither prevents nor rolls back another row of the batch.
C1_RowsIndependent ==
    (req.accepted /\ req.pc \in {"rows", "done"}) =>
        /\ \E b \in budgets : b.id = req.budget_id /\ b.user_id = req.user /\ b.is_active
        /\ req.kind = "lines" =>
              /\ txns = req.store0.txns
              /\ req.pc = "rows" =>
                    /\ lines = req.store0.lines
                    /\ {[req.pending[k] EXCEPT !.id = NextId(lines) + k - 1]
                           : k \in 1..Len(req.pending)} = LinesOfRows(req.pos)
              /\ req.pc = "done" =>
                    lines = req.store0.lines \cup LinesOfRows(Len(req.file) + 1)
        /\ req.kind = "txns" =>
              /\ lines = req.store0.lines
              /\ txns = req.store0.txns \cup TxnsOfRows(req.pos)
              /\ req.pc = "done" => req.pos = Len(req.file) + 1
        /\ Cardinality(lines) + Cardinality(txns)
              = Cardinality(req.store0.lines) + Cardinality(req.store0.txns)
                + (IF req.kind = "lines" /\ req.pc = "rows" THEN 0
                   ELSE Cardinality(PassingRows(req.pos)))

\* an import whose first data row was rejected and whose second was persisted
C1_Witness ==
    /\ req.pc = "done" /\ req.accepted
    /\ req.errors # <<>> /\ req.errors[1].row = 2
    /\ req.created = 1
    /\ Cardinality(lines) + Cardinality(txns) = 1

\* C2: when the header of an upload is rejected, the import aborts with
\* exactly one top-level "Header mismatch" error, no data row is processed
\* and the store is unchanged whatever the rows contain: no BudgetLine, no
\* Transaction and no auto-created Budget is persisted.
C2_HeaderRejectedNothingPersisted ==
    (HeaderRejected /\ (req.kind = "lines" \/ Len(req.file) > 0)) =>
        /\ req.pc = "done"
        /\ resp = ErrorPage(<<HeaderMismatch>>)
        /\ req.created = 0 /\ req.errors = <<>> /\ req.pending = <<>>
        /\ req.row_idx = 0 /\ req.pos = 0
        /\ budgets = req.store0.budgets
        /\ lines = req.store0.lines
        /\ txns = req.store0.txns

\* a user without a budget had an upload refused for its header although its
\* data rows are there
C2_Witness ==
    /\ HeaderRejected /\ req.pc = "done"
    /\ Len(req.file) >= 2
    /\ ~\E b \in budgets : b.user_id = req.user

ColumnSet(header) == {header[i] : i \in 1..Len(header)}

\* C3 as stated: the budget-line import accepts a file only if its header is
\* exactly the ordered 9-column list; every other header (a column missing, an
\* extra column, another order) is rejected with the header-mismatch error.
C3_Original ==
    (HeaderChecked /\ req.kind = "lines") =>
        /\ req.accepted =>
              /\ Len(req.file) >= 1
              /\ req.file[1] = <<"type", "category", "subcategory", "amount", "currency",
                                 "frequency", "start_mm_yy", "end_mm_yy", "one_time_mm_yy">>
        /\ ~req.accepted => resp = ErrorPage(<<HeaderMismatch>>)

\* C3 amended: the budget-line import accepts a file if and only if each of
\* the 9 column names type, category, subcategory, amount, currency, frequency,
\* start_mm_yy, end_mm_yy, one_time_mm_yy occurs in its header; the order of
\* the columns does not matter and additional columns are allowed.  A header
\* that lacks one of the nine, and an empty file, is rejected with the
\* header-mismatch error.
C3_HeaderByName ==
    (HeaderChecked /\ req.kind = "lines") =>
        /\ req.accepted <=>
              /\ Len(req.file) >= 1
              /\ {"type", "category", "subcategory", "amount", "currency", "frequency",
                  "start_mm_yy", "end_mm_yy", "one_time_mm_yy"} \subseteq ColumnSet(req.file[1])
        /\ ~req.accepted => resp = ErrorPage(<<HeaderMismatch>>)

\* a header with the nine columns in another order, or with one more, was
\* accepted
C3_Witness ==
    /\ HeaderChecked /\ req.kind = "lines" /\ req.accepted
    /\ req.file[1] # required_cols

\* C4: the transaction import accepts a file iff its first row equals, element
\* for element and in order, date,type,category,subcategory,amount,currency,
\* notes; any other first row yields the header-mismatch error and an empty
\* file a single 'empty CSV' error, in both cases with nothing persisted.
C4_TxHeaderExact ==
    (req.pc # "idle" /\ req.user # 0 /\ req.utf8 /\ req.kind = "txns") =>
        /\ req.accepted <=>
              /\ Len(req.file) >= 1
              /\ Len(req.file[1]) = 7
              /\ \A i \in 1..7 :
                    req.file[1][i] = <<"date", "type", "category", "subcategory",
                                       "amount", "currency", "notes">>[i]
        /\ Len(req.file) = 0 => resp = ErrorPage(<<EmptyCsv>>)
        /\ (Len(req.file) >= 1 /\ ~req.accepted) => resp = ErrorPage(<<HeaderMismatch>>)
        /\ ~req.accepted =>
              /\ req.pc = "done"
              /\ budgets = req.store0.budgets /\ lines = req.store0.lines
              /\ txns = req.store0.txns

\* an upload with the seven columns in another order, and data rows, was
\* refused
C4_Witness ==
    /\ req.pc = "done" /\ req.user # 0 /\ req.utf8 /\ req.kind = "txns"
    /\ ~req.accepted
    /\ Len(req.file) >= 2
    /\ ColumnSet(req.file[1]) = ColumnSet(EXPECTED_HEADER)

\* the data rows the reader yields below position pos: csv.DictReader leaves
\* out the blank lines, csv.reader yields them as empty rows
DataRows(pos) ==
    IF req.kind = "lines"
    THEN {i \in 2..(pos - 1) : req.file[i] # <<>>}
    ELSE 2..(pos - 1)

RowOutcome(i) ==
    IF req.kind = "lines" THEN lines_import_row(req.file[1], req.file[i])
    ELSE import_row(req.file[i])

RejectedRows(pos) == {i \in DataRows(pos) : ~RowOutcome(i).ok}

\* the list page an importer redirects to
ListPage == IF req.kind = "lines" THEN "/budget/lines" ELSE "/transactions"

\* C17: both importers answer with their 303 redirect if and only if the
\* header was accepted and no data row was rejected; whenever at least one row
\* is rejected the response is a 400 page carrying every rejection message of
\* the batch, in input-row order, and no redirect is issued (even though the
\* valid rows have been persisted).
C17_RedirectIffNoRejection ==
    (req.pc = "done" /\ req.kind \in {"lines", "txns"}) =>
        LET rejected == RejectedRows(Len(req.file) + 1)
        IN  /\ (resp.status = 303 /\ resp.location = ListPage)
                  <=> (req.accepted /\ rejected = {})
            /\ (req.user # 0 /\ resp.status = 303) => resp.location = ListPage
            /\ (req.accepted /\ rejected # {}) =>
                  /\ resp.status = 400 /\ resp.location = ""
                  /\ Len(resp.errors) = Cardinality(rejected)
                  /\ \A i \in rejected :
                        resp.errors[Cardinality({j \in rejected : j <= i})].msg
                            = RowOutcome(i).err
                  /\ Cardinality(lines) + Cardinality(txns)
                        = Cardinality(req.store0.lines) + Cardinality(req.store0.txns)
                          + Cardinality(DataRows(Len(req.file) + 1) \ rejected)

\* an import of two rejected rows with different reasons, answered with 400
C17_Witness ==
    /\ req.pc = "done" /\ req.accepted
    /\ resp.status = 400 /\ Len(resp.errors) = 2
    /\ resp.errors[1].msg # resp.errors[2].msg

Present(o) == o # None

\* C5: for frequency 'monthly' the validator succeeds iff start is present,
\* end is absent or >= start, and one_time is absent; for 'one_time' it
\* succeeds iff one_time is present and start and end are both absent.
C5_FrequencyTable ==
    Called(valid.out) =>
        /\ valid.frequency = MONTHLY =>
              (valid.out.ok <=>
                  /\ Present(valid.start_ym)
                  /\ (~Present(valid.end_ym) \/ valid.end_ym[1] >= valid.start_ym[1])
                  /\ ~Present(valid.one_time_ym))
        /\ valid.frequency = ONE_TIME =>
              (valid.out.ok <=>
                  /\ Present(valid.one_time_ym)
                  /\ ~Present(valid.start_ym)
                  /\ ~Present(valid.end_ym))

\* a monthly call with start, a later end and no one_time has been validated
C5_Witness ==
    /\ Called(valid.out) /\ valid.out.ok
    /\ valid.frequency = MONTHLY
    /\ Present(valid.start_ym) /\ Present(valid.end_ym)
    /\ valid.end_ym[1] > valid.start_ym[1]

FrequencyError == "frequency must be 'monthly' or 'one_time'"

\* C6 as stated: every frequency that is not exactly 'monthly' or 'one_time'
\* fails with the frequency error, whatever start, end and one_time are.
C6_Original ==
    (Called(valid.out) /\ valid.frequency \notin {MONTHLY, ONE_TIME}) =>
        (~valid.out.ok /\ valid.out.err = FrequencyError)

\* C6 amended: the frequency is compared after lower-casing.  The validator
\* fails with the frequency error exactly for the frequencies whose lower-case
\* form is neither 'monthly' nor 'one_time', whatever start, end and one_time
\* are; a case variant such as 'Monthly' is validated as 'monthly'.
C6_FrequencyErrorAfterLower ==
    Called(valid.out) =>
        ((~valid.out.ok /\ valid.out.err = FrequencyError)
            <=> \A legal \in {MONTHLY, ONE_TIME} :
                    \/ Len(valid.frequency) # Len(legal)
                    \/ \E i \in 1..Len(legal) :
                          /\ valid.frequency[i] # legal[i]
                          /\ \A k \in 1..26 :
                                ~(valid.frequency[i] = UpperLetters[k]
                                  /\ legal[i] = LowerLetters[k]))

\* a frequency written in capitals has been validated and accepted
C6_Witness ==
    /\ Called(valid.out) /\ valid.out.ok
    /\ valid.frequency \notin {MONTHLY, ONE_TIME}

(***************************************************************************)
(* Properties of the period codec (SpecCodec).                             *)
(***************************************************************************)
IsWs(s, i) == s[i] \in Whitespace

IsDg(s, i) == s[i] \in DigitSet

TwoDigits(s, i) == 10 * DigitVal(s[i]) + DigitVal(s[i + 1])

\* the ways to read s as: two digits at a, a '/' at p, two digits at b, and
\* whitespace everywhere else
MonthTextReadings(s) ==
    LET slashes == {i \in 1..Len(s) : s[i] = "/"}
        starts == {i \in 1..(Len(s) - 1) : IsDg(s, i) /\ IsDg(s, i + 1)}
    IN  {t \in starts \X slashes \X starts :
            LET a == t[1]
                p == t[2]
                b == t[3]
            IN  /\ a + 1 < p /\ p < b
                /\ \A i \in 1..Len(s) \ {a, a + 1, p, b, b + 1} : IsWs(s, i)}

\* the readings in which nothing stands between the digits and the '/'
TrimmedReadings(s) == {t \in MonthTextReadings(s) : t[2] = t[1] + 2 /\ t[3] = t[2] + 1}

MonthInRange(s, t) == TwoDigits(s, t[1]) \in 1..12

KeyOfReading(s, t) == (2000 + TwoDigits(s, t[3])) * 100 + TwoDigits(s, t[1])

\* C7 as stated: mm_yy_to_ym succeeds exactly when the trimmed text is two
\* '/'-separated all-digit parts of two characters with month in 1..12, and
\* then returns (2000+YY)*100+MM.
C7_Original ==
    (codec.src = "text" /\ Called(codec.p_out)) =>
        /\ codec.p_out.ok <=> \E t \in TrimmedReadings(codec.s_in) : MonthInRange(codec.s_in, t)
        /\ codec.p_out.ok =>
              \A t \in TrimmedReadings(codec.s_in) : codec.p_out.val = KeyOfReading(codec.s_in, t)

\* C7 amended: each of the two '/'-separated parts is trimmed on its own
\* before it is checked.  mm_yy_to_ym succeeds exactly when the text is two
\* '/'-separated parts that, each trimmed of surrounding whitespace, are all
\* digits and two characters long with month in 1..12, and then returns
\* (2000+YY)*100+MM; it fails for every other text.
C7_ParseTwoDigitYear ==
    (codec.src = "text" /\ Called(codec.p_out)) =>
        /\ codec.p_out.ok <=> \E t \in MonthTextReadings(codec.s_in) : MonthInRange(codec.s_in, t)
        /\ codec.p_out.ok =>
              \A t \in MonthTextReadings(codec.s_in) : codec.p_out.val = KeyOfReading(codec.s_in, t)

\* a text with whitespace between the month and the '/' has been parsed
C7_Witness ==
    /\ codec.src = "text" /\ codec.p_out.ok
    /\ TrimmedReadings(codec.s_in) = {}

\* the positions a at which s reads: two digits, '/', four digits, with
\* whitespace everywhere else
LongYearReadings(s) ==
    {a \in 1..Len(s) :
        /\ a + 6 <= Len(s)
        /\ \A i \in {a, a + 1, a + 3, a + 4, a + 5, a + 6} : IsDg(s, i)
        /\ s[a + 2] = "/"
        /\ \A i \in 1..Len(s) \ (a..(a + 6)) : IsWs(s, i)
        /\ TwoDigits(s, a) \in 1..12}

\* C8 as stated: mm_yy_to_ym accepts 'MM/YYYY' with month in 1..12 and
\* returns YYYY*100+MM.
C8_Original ==
    (codec.src = "text" /\ Called(codec.p_out)) =>
        \A a \in LongYearReadings(codec.s_in) :
            /\ codec.p_out.ok
            /\ codec.p_out.val =
                  (100 * TwoDigits(codec.s_in, a + 3) + TwoDigits(codec.s_in, a + 5)) * 100
                  + TwoDigits(codec.s_in, a)

\* C8 amended: mm_yy_to_ym rejects every month text whose year part has four
\* digits ('MM/YYYY', month in 1..12) with the error "use two digits for
\* month and year"; only a two-digit year is accepted.
C8_LongYearRejected ==
    (codec.src = "text" /\ Called(codec.p_out) /\ LongYearReadings(codec.s_in) # {}) =>
        /\ ~codec.p_out.ok
        /\ codec.p_out.err = "Invalid MM/YY; use two digits for month and year"

\* a text 'MM/YYYY' has been handed to mm_yy_to_ym
C8_Witness ==
    /\ codec.src = "text" /\ Called(codec.p_out)
    /\ LongYearReadings(codec.s_in) # {}

\* C9 as stated: ym_to_mm_yy fails for every ym < 100001 and for every ym
\* whose ym mod 100 is outside 1..12, and for every other ym returns the
\* two-digit month, '/', and the two-digit value of year mod 100.
C9_Original ==
    (codec.src = "key" /\ Called(codec.f_out)) =>
        LET ym == codec.ym_in
        IN  IF ym < 100001 \/ (ym % 100) \notin 1..12
            THEN ~codec.f_out.ok
            ELSE /\ codec.f_out.ok
                 /\ codec.f_out.val =
                       Fmt02(ym % 100) \o <<"/">> \o Fmt02((ym \div 100) % 100)

\* C9 amended: the floor is 10000.  ym_to_mm_yy fails for every integer ym
\* with ym < 10000 or with ym mod 100 outside 1..12, and for every other
\* integer ym returns the two-digit month, '/', and the two-digit value of
\* year mod 100.
C9_FormatFloor ==
    (codec.src = "key" /\ Called(codec.f_out)) =>
        LET ym == codec.ym_in
        IN  IF ym < 10000 \/ (ym % 100) \notin 1..12
            THEN ~codec.f_out.ok
            ELSE /\ codec.f_out.ok
                 /\ codec.f_out.val =
                       <<Digits[((ym % 100) \div 10) + 1], Digits[((ym % 100) % 10) + 1],
                         "/",
                         Digits[(((ym \div 100) % 100) \div 10) + 1],
                         Digits[(((ym \div 100) % 100) % 10) + 1]>>

\* a key between the two floors has been formatted
C9_Witness ==
    /\ codec.src = "key" /\ codec.f_out.ok
    /\ codec.ym_in < 100001

\* C10: for every key ym that ym_to_mm_yy accepts, mm_yy_to_ym(ym_to_mm_yy(ym))
\* = ym iff the year of ym is in 2000..2099; and for every text s that
\* mm_yy_to_ym accepts, parse(format(parse(s))) = parse(s).
C10_RoundTrip ==
    /\ (codec.src = "key" /\ Called(codec.p_out)) =>
          ((codec.p_out.ok /\ codec.p_out.val = codec.ym_in)
              <=> (codec.ym_in \div 100) \in 2000..2099)
    /\ (codec.src = "text" /\ Called(codec.r_out)) =>
          (codec.r_out.ok /\ codec.r_out.val = codec.p_out.val)

\* a key of a year in 2000..2099 has been formatted and parsed back
C10_Witness ==
    /\ codec.src = "key" /\ Called(codec.p_out)
    /\ (codec.ym_in \div 100) \in 2000..2099

\* C11: for every year and every month in 1..12, splitting the key produced by
\* the encoder (year*100+month, ym_from_date) with the decoder's arithmetic
\* (ym // 100, ym % 100) gives back exactly (year, month).
C11_SplitEncoded ==
    (codec.src = "date" /\ Called(codec.d_out)) =>
        /\ codec.e_out.val = codec.d_in.year * 100 + codec.d_in.month
        /\ codec.d_out.val.y = codec.d_in.year
        /\ codec.d_out.val.m = codec.d_in.month

\* the key of a December of a three-digit year has been encoded and split
C11_Witness ==
    /\ codec.src = "date" /\ Called(codec.d_out)
    /\ codec.d_in.month = 12
    /\ codec.d_in.year < 1000

(***************************************************************************)
(* Properties of the store under every write operation (SpecApp).          *)
(***************************************************************************)
\* C12: in every reachable state of the store, after any sequence of
\* transaction create (form, service or CSV import), edit and delete
\* operations, including failed ones, every stored Transaction satisfies
\* ym = year(txn_date)*100 + month(txn_date); a failed form submission leaves
\* the table as it was.
C12_YmFollowsDate ==
    /\ \A x \in txns : x.ym = x.txn_date.year * 100 + x.txn_date.month
    /\ (req.pc = "done" /\ req.kind \in {"txn_new", "txn_edit"} /\ resp.status # 303)
          => txns = req.store0.txns

\* an edit has moved a stored transaction to another month
C12_Witness ==
    /\ req.pc = "done" /\ req.kind = "txn_edit" /\ resp.status = 303
    /\ \E x \in txns, y \in req.store0.txns :
          x.id = y.id /\ x.txn_date # y.txn_date /\ x.ym # y.ym

\* the month keys the store holds
StoredKeys ==
    {x.ym : x \in txns}
    \cup UNION {{l[f][1] : f \in {g \in {"start_ym", "end_ym", "one_time_ym"} : l[g] # None}}
                : l \in lines}

\* C13: every month key ever persisted (BudgetLine.start_ym, end_ym,
\* one_time_ym when present, and Transaction.ym) satisfies ym mod 100 in 1..12
\* and ym >= 100001, for every input accepted by the create, edit and import
\* operations.
C13_Original ==
    \A k \in StoredKeys : (k % 100) \in 1..12 /\ k >= 100001

\* C14: in every reachable state, after any sequence of create-line,
\* edit-line, CSV import and delete-line operations, every stored BudgetLine
\* has a legal field combination: a monthly line has start_ym present, end_ym
\* absent or >= start_ym, and one_time_ym absent; a one_time line has
\* one_time_ym present and start_ym and end_ym absent.
C14_LegalCombination ==
    \A l \in lines :
        \/ /\ l.frequency = <<"m", "o", "n", "t", "h", "l", "y">>
           /\ l.start_ym # <<>>
           /\ l.end_ym = <<>> \/ l.end_ym[1] >= l.start_ym[1]
           /\ l.one_time_ym = <<>>
        \/ /\ l.frequency = <<"o", "n", "e", "_", "t", "i", "m", "e">>
           /\ l.one_time_ym # <<>>
           /\ l.start_ym = <<>> /\ l.end_ym = <<>>

\* an edit has switched the frequency of a stored line
C14_Witness ==
    /\ req.pc = "done" /\ req.kind = "line_edit" /\ resp.status = 303
    /\ \E l \in lines, o \in req.store0.lines :
          l.id = o.id /\ l.frequency # o.frequency

ActiveBudgets(table, u) == {b \in table : b.user_id = u /\ b.is_active}

\* two successive calls of a get-or-create helper on a table
Twice(table, u, first, second) ==
    /\ second.bud.id = first.bud.id
    /\ second.budgets = first.budgets
    /\ first.bud \in ActiveBudgets(first.budgets, u)
    /\ IF ActiveBudgets(table, u) = {}
       THEN first.budgets = table \cup {first.bud} /\ first.bud \notin table
       ELSE first.budgets = table

\* C15: in any sequential execution of requests, get-or-create-active-budget
\* is idempotent per owner: it inserts a Budget only when the owner has no
\* active Budget, two successive calls for the same owner return the same
\* Budget id, and every user has at most one active Budget in every reachable
\* state.
C15_GetOrCreateIdempotent ==
    /\ \A u \in SessionUsers \ {0} :
          /\ Cardinality(ActiveBudgets(budgets, u)) <= 1
          /\ Twice(budgets, u, _get_or_create_budget(budgets, u),
                   _get_or_create_budget(_get_or_create_budget(budgets, u).budgets, u))
          /\ Twice(budgets, u, tx_get_or_create_budget(budgets, u),
                   tx_get_or_create_budget(tx_get_or_create_budget(budgets, u).budgets, u))
          /\ Twice(budgets, u, import_get_or_create_budget(budgets, u),
                   import_get_or_create_budget(
                       import_get_or_create_budget(budgets, u).budgets, u))
    /\ req.pc # "idle" =>
          /\ req.store0.budgets \subseteq budgets
          /\ \A b \in budgets \ req.store0.budgets :
                b.user_id = req.user /\ ActiveBudgets(req.store0.budgets, req.user) = {}

\* a user who had a budget has been served again, and so has another user
C15_Witness ==
    /\ req.pc = "done" /\ req.kind = "line_new" /\ resp.status = 303
    /\ ActiveBudgets(req.store0.budgets, req.user) # {}
    /\ Cardinality(budgets) = 2

\* C20: every failing single-row budget-line form submission (create_line or
\* edit_line_submit with an invalid type, an invalid frequency, a malformed
\* month string or an illegal frequency/month combination) ends in a 400
\* response that re-renders the form with the specific reason, and adds no
\* BudgetLine and changes no field of any existing BudgetLine.
C20_Original ==
    (/\ req.pc = "done" /\ req.user # 0
     /\ \/ req.kind = "line_new"
        \/ /\ req.kind = "line_edit"
           /\ _get_line_for_user(req.store0.budgets, req.store0.lines,
                                 req.user, req.target) # None
     /\ \/ req.form.type \notin {INCOME, EXPENSE}
        \/ req.form.frequency \notin {MONTHLY, ONE_TIME}
        \/ ~line_form_months(req.form).ok)
    => /\ resp.status = 400
       /\ Len(resp.errors) = 1
       /\ lines = req.store0.lines

(***************************************************************************)
(* Properties of overlapping requests (SpecRace).                          *)
(***************************************************************************)
\* C16: when two requests of the same user who has no active Budget
\* interleave their get-or-create steps (both read 'no active budget' before
\* either commits its insert), the user ends up owning two active Budgets:
\* each of the two requests inserts one and returns its own, and nothing
\* (lock, uniqueness constraint, retry) refuses the second.
C16_TwoActiveBudgets ==
    \A p, q \in 1..RaceRequests :
        (/\ p # q /\ calls[p].user = calls[q].user
         /\ calls[p].pc = "returned" /\ calls[q].pc = "returned"
         /\ calls[p].seen = <<>> /\ calls[q].seen = <<>>)
        => /\ calls[p].bud # calls[q].bud
           /\ \A r \in {p, q} :
                 \E b \in budgets :
                     b.id = calls[r].bud /\ b.user_id = calls[p].user /\ b.is_active
           /\ Cardinality({b \in budgets : b.user_id = calls[p].user /\ b.is_active}) >= 2

\* both requests of one user read 'no active budget', both have returned, and
\* the user owns two active budgets
C16_Witness ==
    /\ calls[1].user = calls[2].user
    /\ calls[1].pc = "returned" /\ calls[2].pc = "returned"
    /\ calls[1].seen = <<>> /\ calls[2].seen = <<>>
    /\ Cardinality({b \in budgets : b.user_id = calls[1].user /\ b.is_active}) = 2

(***************************************************************************)
(* Properties of the mounted application (SpecSite).                       *)
(***************************************************************************)
\* the budget-line routes that ask for a signed-in session
LineRoutes ==
    {"line_list", "line_new_form", "line_new", "line_edit_form", "line_edit",
     "line_delete", "lines_import_form", "lines"}

\* C21: on every budget-line route that requires sign-in (list, new form,
\* create, edit form, edit, delete, import form, import) a request whose
\* session carries no user_id is answered at once with a 303 redirect to
\* /auth/signin, and the store is as the request found it: no Budget,
\* BudgetLine or Transaction is created, modified or deleted.
C21_SignInRequired ==
    (req.kind \in LineRoutes /\ req.user = 0)
        => /\ req.pc = "done"
           /\ resp = Redirect("/auth/signin")
           /\ Store = req.store0

\* a delete request without a user_id names a line that is in the store
C21_Witness ==
    /\ req.pc = "done" /\ req.kind = "line_delete" /\ req.user = 0
    /\ \E l \in lines : l.id = req.target
    /\ resp = Redirect("/auth/signin")

\* the owner of a line: the user_id of its budget
OwnerOf(table, l) ==
    {b.user_id : b \in {x \in table : x.id = l.budget_id}}

C23_Original ==
    (codec.src = "range" /\ Called(codec.i_out))
        => /\ codec.i_out.ok
           /\ codec.i_out.val =
                 (/\ codec.lo_in = None \/ codec.ym_in >= codec.lo_in[1]
                  /\ codec.hi_in = None \/ codec.ym_in <= codec.hi_in[1])


(***************************************************************************)
(* The order of the validator's checks (SpecValidate).                     *)
(***************************************************************************)
\* C24: the validator reports the first violated rule in a fixed order.  For
\* monthly: an absent start gives 'start required' whatever end and one_time
\* are; otherwise end < start gives 'end must be >= start' even when one_time
\* is present too; otherwise a present one_time gives 'one_time must be
\* empty'.  For one_time: an absent one_time gives 'one_time required'
\* whatever start and end are; otherwise a present start or end gives
\* 'start/end must be empty'.
C24_FirstViolatedRule ==
    Called(valid.out) =>
        /\ valid.frequency = MONTHLY =>
              /\ ~Present(valid.start_ym)
                    => valid.out = Raise("start_ym required for monthly")
              /\ (/\ Present(valid.start_ym) /\ Present(valid.end_ym)
                  /\ valid.end_ym[1] < valid.start_ym[1])
                    => valid.out = Raise("end_ym must be >= start_ym")
              /\ (/\ Present(valid.start_ym)
                  /\ ~(Present(valid.end_ym) /\ valid.end_ym[1] < valid.start_ym[1])
                  /\ Present(valid.one_time_ym))
                    => valid.out = Raise("one_time_ym must be empty for monthly")
        /\ valid.frequency = ONE_TIME =>
              /\ ~Present(valid.one_time_ym)
                    => valid.out = Raise("one_time_ym required for one_time")
              /\ (/\ Present(valid.one_time_ym)
                  /\ (Present(valid.start_ym) \/ Present(valid.end_ym)))
                    => valid.out = Raise("start_ym/end_ym must be empty for one_time")

\* a monthly call that breaks two rules at once, end < start and a present
\* one_time, has been answered with the error about end
C24_Witness ==
    /\ Called(valid.out) /\ valid.frequency = MONTHLY
    /\ Present(valid.start_ym) /\ Present(valid.end_ym) /\ Present(valid.one_time_ym)
    /\ valid.end_ym[1] < valid.start_ym[1]
    /\ valid.out = Raise("end_ym must be >= start_ym")


(***************************************************************************)
(* Month text and the frequency (SpecSite).                                *)
(***************************************************************************)
\* the month columns that are not read under a frequency
NotApplicable(frequency) ==
    (IF frequency = MONTHLY THEN {} ELSE {"start_mm_yy", "end_mm_yy"})
    \cup (IF frequency = ONE_TIME THEN {} ELSE {"one_time_mm_yy"})

\* a row with the cells of some columns emptied
BlankCells(header, row, cols) ==
    [k \in 1..Len(row) |->
        IF k <= Len(header) /\ header[k] \in cols THEN <<>> ELSE row[k]]

\* a form with some of its month fields left out
BlankFields(form, cols) ==
    [form EXCEPT
        !.start_mm_yy = IF "start_mm_yy" \in cols THEN None ELSE @,
        !.end_mm_yy = IF "end_mm_yy" \in cols THEN None ELSE @,
        !.one_time_mm_yy = IF "one_time_mm_yy" \in cols THEN None ELSE @]

\* the months of a stored line that its frequency does not use are absent
UnusedMonthsAbsent(l, frequency) ==
    /\ frequency # MONTHLY => l.start_ym = None /\ l.end_ym = None
    /\ frequency # ONE_TIME => l.one_time_ym = None

\* the frequency cell of data row i as the importer reads it
FrequencyOfRow(i) == Lower(Strip(DictGet(req.file[1], req.file[i], "frequency")))

\* C25: in the budget-line import and in the create and edit forms, start and
\* end are parsed only when the frequency is monthly and one_time only when it
\* is one_time.  Text in a column that does not apply, malformed or not, is
\* never parsed and never causes a rejection: the row or form has the outcome
\* it would have with that column empty, and the line is stored with the
\* month absent.
C25_NonApplicableIgnored ==
    /\ (req.kind = "lines" /\ req.accepted /\ req.pc \in {"rows", "done"}) =>
          \A i \in DataRows(req.pos) :
              /\ RowOutcome(i) = lines_import_row(req.file[1],
                     BlankCells(req.file[1], req.file[i],
                                NotApplicable(FrequencyOfRow(i))))
              /\ (req.pc = "done" /\ RowOutcome(i).ok) =>
                    \E l \in lines :
                        /\ l.id = IdOfRow(req.store0.lines, req.pos, i)
                        /\ UnusedMonthsAbsent(l, FrequencyOfRow(i))
    /\ (/\ req.kind \in {"line_new", "line_edit"} /\ req.pc = "done"
        /\ req.user # 0 /\ resp # NotFound) =>
          LET months == line_form_months(req.form)
              blank == line_form_months(
                           BlankFields(req.form, NotApplicable(req.form.frequency)))
          IN  /\ months = blank
              /\ resp = ErrorPage(<<FormError(months)>>) <=> ~blank.ok
              /\ resp = Redirect("/budget/lines") =>
                    \E l \in lines :
                        /\ l.id = IF req.kind = "line_new"
                                  THEN NextId(req.store0.lines) ELSE req.target
                        /\ UnusedMonthsAbsent(l, req.form.frequency)

\* an import has created a monthly line from a row whose one_time cell holds
\* text that is no month
C25_Witness ==
    /\ req.kind = "lines" /\ req.accepted /\ req.pc = "done"
    /\ \E i \in PassingRows(req.pos) :
          LET cell == Strip(DictGet(req.file[1], req.file[i], "one_time_mm_yy"))
          IN  /\ FrequencyOfRow(i) = MONTHLY
              /\ cell # <<>> /\ ~parse_mm_yy(cell).ok
              /\ \E l \in lines : /\ l.id = IdOfRow(req.store0.lines, req.pos, i)
                                  /\ l.one_time_ym = None


(***************************************************************************)
(* Isolation between users (SpecApp).                                      *)
(***************************************************************************)
\* the rows of a table that belong to a budget of another user than u
ForeignRows(table, u) ==
    {x \in table : \E b \in budgets \cup req.store0.budgets :
                       b.id = x.budget_id /\ b.user_id # u}

\* no request touches a row of another user's budget
ForeignRowsKept ==
    req.pc # "idle" =>
        /\ ForeignRows(lines, req.user) = ForeignRows(req.store0.lines, req.user)
        /\ ForeignRows(txns, req.user) = ForeignRows(req.store0.txns, req.user)

\* an edit or delete of a line that is in none of the user's budgets
ForeignLineNamed ==
    /\ req.pc = "done" /\ req.kind \in {"line_edit", "line_delete"} /\ req.user # 0
    /\ \A l \in req.store0.lines :
          l.id = req.target => req.user \notin OwnerOf(req.store0.budgets, l)

\* a delete of a transaction that exists and is in a budget of another user
ForeignTxnNamed ==
    /\ req.pc = "done" /\ req.kind = "txn_delete" /\ req.user # 0
    /\ \E x \in ForeignRows(req.store0.txns, req.user) : x.id = req.target

\* C26 as stated: no request made with user A's session creates, modifies or
\* deletes a BudgetLine or Transaction of a Budget owned by another user; an
\* edit or delete of a line id that is in none of A's budgets is answered 404
\* with the store unchanged, and a delete of a foreign transaction id changes
\* nothing.
C26_Original ==
    /\ ForeignRowsKept
    /\ ForeignLineNamed => (resp = NotFound /\ Store = req.store0)
    /\ ForeignTxnNamed => Store = req.store0

\* C26, amended: as stated, except that the delete of a foreign transaction
\* id leaves every BudgetLine and Transaction and every existing Budget as it
\* was, and may add the 'Main' Budget of user A when A has no active one.
C26_Isolation ==
    /\ ForeignRowsKept
    /\ ForeignLineNamed => (resp = NotFound /\ Store = req.store0)
    /\ ForeignTxnNamed =>
          /\ txns = req.store0.txns /\ lines = req.store0.lines
          /\ resp = Redirect("/transactions")
          /\ budgets = tx_get_or_create_budget(req.store0.budgets, req.user).budgets
          /\ req.store0.budgets \subseteq budgets
          /\ \A b \in budgets \ req.store0.budgets :
                b.user_id = req.user /\ ActiveBudgets(req.store0.budgets, req.user) = {}

\* a user has asked to delete a transaction of another user's budget, and it
\* is still there
C26_Witness ==
    /\ ForeignTxnNamed
    /\ \E x \in txns : x.id = req.target


(***************************************************************************)
(* The counters of the row loops and the cells of a transaction row (Spec). *)
(***************************************************************************)
\* C27: every data row of an accepted import has exactly one outcome.  At
\* every step of the row loop and at its end, in both importers, the number
\* of rows counted as created plus the number of rejection messages is the
\* number of data rows consumed so far; the created count is the number of
\* passing rows, no row has two messages, and at the end every data row of
\* the upload has been consumed.
C27_OneOutcomePerRow ==
    (req.accepted /\ req.pc \in {"rows", "done"}) =>
        /\ req.created + Len(req.errors) = Cardinality(DataRows(req.pos))
        /\ req.created = Cardinality(PassingRows(req.pos))
        /\ \A j, k \in 1..Len(req.errors) :
              req.errors[j].row = req.errors[k].row => j = k
        /\ req.pc = "done" => req.pos = Len(req.file) + 1

\* an import of two data rows has ended with one row created and one rejected
C27_Witness ==
    /\ req.accepted /\ req.pc = "done"
    /\ req.created = 1 /\ Len(req.errors) = 1
    /\ Cardinality(DataRows(req.pos)) = 2

\* cell k of a transaction row: stripped, and empty when the row is too short
TxCell(row, k) == IF k <= Len(row) THEN Strip(row[k]) ELSE <<>>

\* the required cells of a transaction row are there and valid
TxRowValid(row) ==
    /\ TxCell(row, 1) # <<>> /\ fromisoformat(TxCell(row, 1)).ok
    /\ Lower(TxCell(row, 2)) \in {INCOME, EXPENSE}
    /\ TxCell(row, 3) # <<>>
    /\ TxCell(row, 5) # <<>> /\ float(TxCell(row, 5)).ok

\* C28: in the transaction import a data row with fewer than 7 fields is read
\* as if the missing trailing fields were empty and a row with more than 7
\* has the extra fields ignored; every field is trimmed before validation.
\* A row is rejected exactly when a required field (date, type, category,
\* amount) is empty or invalid after that, and the transaction of a passing
\* row has the trimmed cells, with EUR for an empty currency.
C28_PadTruncateTrim ==
    (req.kind = "txns" /\ req.accepted /\ req.pc \in {"rows", "done"}) =>
        \A i \in DataRows(req.pos) :
            LET row == req.file[i]
            IN  /\ (\E k \in 1..Len(req.errors) : req.errors[k].row = i)
                      <=> ~TxRowValid(row)
                /\ TxRowValid(row) =>
                      \E x \in txns :
                          /\ x.id = IdOfRow(req.store0.txns, req.pos, i)
                          /\ x.txn_date = fromisoformat(TxCell(row, 1)).val
                          /\ x.type = Lower(TxCell(row, 2))
                          /\ x.category = TxCell(row, 3)
                          /\ x.subcategory = OrNone(TxCell(row, 4))
                          /\ x.amount = float(TxCell(row, 5)).val
                          /\ x.currency = IF TxCell(row, 6) = <<>> THEN EUR
                                          ELSE TxCell(row, 6)
                          /\ x.notes = OrNone(TxCell(row, 7))

\* a row of five fields, with blanks around its type, has been imported with
\* currency EUR
C28_Witness ==
    /\ req.kind = "txns" /\ req.accepted /\ req.pc = "done"
    /\ \E i \in DataRows(req.pos) :
          /\ Len(req.file[i]) < 7 /\ Len(req.file[i]) > 0
          /\ req.file[i][2] # Strip(req.file[i][2])
          /\ \E x \in txns : /\ x.id = IdOfRow(req.store0.txns, req.pos, i)
                             /\ x.currency = EUR


(***************************************************************************)
(* Flash messages through the middleware of app/main.py (SpecFlash).       *)
(***************************************************************************)
\* the flashes the session held when the request in flight arrived
QueuedBefore == calls[1].jar0[EndpointCookie].flashes

\* C29: with the middleware as app/main.py assembles it, a flash message that
\* a handler queued during one request of a session is in
\* request.state.flashes of the next request of that session, and is then
\* removed from the session: when that request has been answered, the
\* session holds no flash that was queued before it.
C29_Original ==
    (calls # <<>> /\ calls[1].state_flashes # None) =>
        /\ calls[1].state_flashes[1] = QueuedBefore
        /\ (calls[1].pc = "out" /\ calls[1].depth = 0) =>
              \A c \in SessionCookies :
                  Len(session[c].flashes) <= 1
                  /\ (FlashOf(req, resp) = None => session[c].flashes = <<>>)


(***************************************************************************)
(* Properties of overlapping signups (SpecSignup).                         *)
(***************************************************************************)
\* request p passed the 'already exists' check and its insert was refused
LostInsert(p) ==
    /\ calls[p].pc = "returned" /\ calls[p].seen = None
    /\ validate_csrf(calls[p].form.token_in_session, calls[p].form.csrf_token)
    /\ calls[p].resp # Redirect("/")

\* C30: after any interleaving of signup requests, two concurrent signups
\* with the same e-mail that both pass the 'already exists' check included,
\* the user table holds at most one User per e-mail; the signup that loses
\* the insert gets the 400 response 'E-Mail bereits registriert.' (already
\* registered) and its session is given no user_id, and a signup answered
\* with the redirect is signed in as the one user of its e-mail.
C30_OneUserPerEmail ==
    /\ \A x, y \in users : x.email = y.email => x = y
    /\ \A p \in 1..RaceRequests :
          /\ LostInsert(p) =>
                /\ calls[p].resp = AuthError("E-Mail bereits registriert.")
                /\ calls[p].session_user = 0
          /\ (calls[p].pc = "returned" /\ calls[p].resp = Redirect("/")) =>
                \E x \in users : /\ x.email = calls[p].form.email
                                 /\ x.id = calls[p].session_user
          /\ calls[p].resp # Redirect("/") => calls[p].session_user = 0

\* two signups with one e-mail both saw no user of that e-mail; one has been
\* redirected and the other has lost the insert
C30_Witness ==
    /\ calls[1].form.email = calls[2].form.email
    /\ calls[1].seen = None /\ calls[2].seen = None
    /\ \E p, q \in 1..RaceRequests :
          /\ calls[p].pc = "returned" /\ calls[p].resp = Redirect("/")
          /\ LostInsert(q)


=============================================================================
